---- MODULE Spec2Model ----
(***************************************************************************)
(* Model of the shapeland theme-park simulation (Code/park.py,             *)
(* Code/agent.py, Code/attraction.py, Code/activity.py).                    *)
(*                                                                         *)
(* Spec       : the per-minute engine, Park.step, split into the calls it  *)
(*              makes (arrivals, one decision per idle agent, one step per *)
(*              attraction, one step per activity, the time counters), for *)
(*              the first minutes of a day.                                *)
(* SpecDay    : the same engine stepped past the closing minute, for       *)
(*              attractions with hour-long run cycles.                     *)
(* SpecSchedule : Park.generate_arrival_schedule, one loop iteration per   *)
(*              step, for short hourly tables and sparse Poisson draws.    *)
(* SpecSeed   : two parks built from one configuration and one seed,       *)
(*              stepped side by side.                                      *)
(* SpecAttraction, SpecActivity, SpecAgeClass : one Attraction, one        *)
(*              Activity, one archetype's select_age_class, and the calls  *)
(*              made on it.                                                *)
(* SpecProfiles : the engine for agents of every age class, with and       *)
(*              without the expedited ability.                             *)
(* SpecRepeat : the engine for agents that do not repeat attractions.      *)
(* SpecConstruct : generate_arrival_schedule followed by generate_agents.  *)
(* SpecLoad   : one Attraction served over several cycles, with joins to  *)
(*              both queues and returned passes.                           *)
(* SpecStay   : add_to_activity for an agent holding pass deadlines.       *)
(* SpecWait   : the engine for agents with wait_threshold 0.               *)
(* SpecSelect : one call of Agent.select_attraction_decision, one pass of  *)
(*              its loop per step.                                         *)
(* SpecEstimate : one Attraction without expedited queue, whose standby    *)
(*              agents read get_wait_time when they join.                  *)
(* SpecServe  : one Attraction with expedited queue stepped once a minute  *)
(*              without end, with joins, passes taken and returned.        *)
(* SpecPass   : the engine for agents that repeat attractions, hold at     *)
(*              most one pass and take it for waits above one minute.      *)
(*                                                                         *)
(* Numbers that are floats in the source are kept exact as scaled          *)
(* integers: capacity is held as capacity * 60 and the pass budget as      *)
(* budget * ratio_den.                                                     *)
(***************************************************************************)
EXTENDS Integers, Sequences, FiniteSets, TLC

VARIABLES
    cfg,            \* construction inputs of the engine (never change)
    time,           \* Park.time
    arrival_index,  \* Park.arrival_index
    agents,         \* Park.agents       : agent id -> Agent.state
    attractions,    \* Park.attractions  : name -> Attraction state
    activities,     \* Park.activities   : name -> Activity.state
    history,        \* Park.history
    pc,             \* position inside Park.step
    idle_agent_ids, \* Park.step local: snapshot of get_idle_agent_ids still to be served
    attr_idx,       \* Park.step local: position of the attraction / activity loops
    decision,       \* last (action, location) returned by make_state_change_decision
    step_result,    \* last values computed by Attraction.step
    pass_countdown, \* history: agent id -> held pass -> minutes left on that pass
    gen,            \* frame of Park.generate_arrival_schedule (SpecSchedule)
    parks,          \* two parks built from one configuration and seed (SpecSeed)
    obj             \* one object and the last call made on it (SpecAttraction, SpecActivity,
                    \* SpecAgeClass); the distribution handed to generate_agents (SpecConstruct)

vars == <<cfg, time, arrival_index, agents, attractions, activities, history,
          pc, idle_agent_ids, attr_idx, decision, step_result, pass_countdown,
          gen, parks, obj>>

-----------------------------------------------------------------------------
(* Bounds                                                                  *)

NumAgents == 2
MaxTime == 4
MaxStay == 2
DayMinutes == 62

-----------------------------------------------------------------------------
(* Generic helpers                                                         *)

Max(x, y) == IF x >= y THEN x ELSE y
Min(x, y) == IF x <= y THEN x ELSE y

Range(s) == {s[i] : i \in 1..Len(s)}

Take(s, n) == SubSeq(s, 1, Min(n, Len(s)))
Drop(s, n) == SubSeq(s, Min(n, Len(s)) + 1, Len(s))

RemoveAt(s, i) == SubSeq(s, 1, i - 1) \o SubSeq(s, i + 1, Len(s))

\* list.index(x): first position of x, 0 when x is not in the list
IndexOf(s, x) == IF \E i \in 1..Len(s) : s[i] = x
                 THEN CHOOSE i \in 1..Len(s) : s[i] = x /\ \A j \in 1..(i - 1) : s[j] # x
                 ELSE 0

\* the index left in ind_to_remove by "for ind, p in enumerate(s): if p == x: ind_to_remove = ind"
LastIndexOf(s, x) == IF \E i \in 1..Len(s) : s[i] = x
                     THEN CHOOSE i \in 1..Len(s) : s[i] = x /\ \A j \in (i + 1)..Len(s) : s[j] # x
                     ELSE 0

RECURSIVE SeqMin(_)
SeqMin(s) == IF Len(s) = 1 THEN s[1] ELSE Min(s[1], SeqMin(Tail(s)))

Agents == 0..(NumAgents - 1)

MinutesPerHour == 60

-----------------------------------------------------------------------------
(* Configuration                                                           *)

\* registry order of Park.attractions / Park.activities (sorted by popularity)
AttractionOrder == <<"A1", "A2">>
ActivityOrder == <<"V1">>
AttractionNames == Range(AttractionOrder)
ActivityNames == Range(ActivityOrder)

Characteristics(rt, thr, pop, ce, ae, eq, rn, rd) ==
    [run_time |-> rt, hourly_throughput |-> thr, popularity |-> pop,
     child_eligible |-> ce, adult_eligible |-> ae,
     expedited_queue |-> eq, ratio_num |-> rn, ratio_den |-> rd]

\* attraction_list records handed to Park: two attractions per configuration
\* (run_time, hourly_throughput, popularity, child_eligible, adult_eligible,
\*  expedited_queue, expedited_queue_ratio as a fraction)
AttractionLists ==
    { \* capacity 1.5 with every seat expedited; capacity 2 with one expedited seat
      [n \in AttractionNames |->
          IF n = "A1" THEN Characteristics(2, 45, 1, TRUE, FALSE, TRUE, 1, 1)
                      ELSE Characteristics(3, 40, 2, TRUE, TRUE, TRUE, 1, 2)],
      \* capacity 1 whose expedited share rounds to no seat; capacity 2 without expedited queue
      [n \in AttractionNames |->
          IF n = "A1" THEN Characteristics(1, 60, 1, TRUE, TRUE, TRUE, 1, 2)
                      ELSE Characteristics(1, 120, 1, FALSE, TRUE, FALSE, 0, 1)] }

-----------------------------------------------------------------------------
(* Attraction (Code/attraction.py)                                         *)

\* state of a new Attraction (initialize_attraction)
initialize_attraction ==
    [agents_in_attraction |-> <<>>, queue |-> <<>>, exp_queue |-> <<>>,
     exp_queue_passes_distributed |-> 0, run_time_remaining |-> 0,
     exp_queue_passes |-> 0]

\* self.capacity = hourly_throughput * (run_time / 60), held as capacity * 60
capacity60(c) == c.hourly_throughput * c.run_time

\* int(self.capacity * self.exp_queue_ratio)
exp_seats(c) == (capacity60(c) * c.ratio_num) \div (MinutesPerHour * c.ratio_den)

\* value returned for a call that never returns
Diverges == -1

\* the while loop of get_wait_time; queue lengths are held * 60
RECURSIVE wait_loop(_, _, _, _)
wait_loop(c, queue_len, exp_queue_len, runs) ==
    LET seats == MinutesPerHour * exp_seats(c)
        standby_seats == capacity60(c) - seats
    IN  IF queue_len < capacity60(c) THEN runs
        ELSE IF exp_queue_len > seats
             THEN wait_loop(c, IF queue_len > standby_seats THEN queue_len - standby_seats ELSE 0,
                            exp_queue_len - seats, runs + 1)
             ELSE wait_loop(c, queue_len - (capacity60(c) - exp_queue_len), 0, runs + 1)

\* variant: a started cycle of the standby queue counts as a whole one
get_wait_time_counting_started_cycle(c, s) ==
    ((MinutesPerHour * Len(s.queue) + capacity60(c) - 1) \div capacity60(c)) * c.run_time
        + s.run_time_remaining

\* variant: the minutes left of the running cycle are not counted
get_wait_time_whole_cycles_only(c, s) ==
    IF c.expedited_queue
    THEN wait_loop(c, MinutesPerHour * Len(s.queue), MinutesPerHour * Len(s.exp_queue), 0)
            * c.run_time
    ELSE ((MinutesPerHour * Len(s.queue)) \div capacity60(c)) * c.run_time

get_wait_time(c, s) ==
    IF c.expedited_queue
    THEN wait_loop(c, MinutesPerHour * Len(s.queue), MinutesPerHour * Len(s.exp_queue), 0)
            * c.run_time + s.run_time_remaining
    ELSE ((MinutesPerHour * Len(s.queue)) \div capacity60(c)) * c.run_time + s.run_time_remaining

\* the while loop of get_exp_wait_time; an iteration that changes neither
\* length repeats for ever
RECURSIVE exp_wait_loop(_, _, _, _)
exp_wait_loop(c, queue_len, exp_queue_len, runs) ==
    LET seats == MinutesPerHour * exp_seats(c)
        standby_seats == capacity60(c) - seats
        next_queue_len == IF queue_len > standby_seats THEN queue_len - standby_seats ELSE 0
    IN  IF exp_queue_len < capacity60(c) THEN runs
        ELSE IF exp_queue_len > seats
             THEN IF seats = 0 /\ next_queue_len = queue_len
                  THEN Diverges
                  ELSE exp_wait_loop(c, next_queue_len, exp_queue_len - seats, runs + 1)
             ELSE exp_wait_loop(c, queue_len - (capacity60(c) - exp_queue_len), 0, runs + 1)

\* variant: the estimate is computed whether or not the attraction has an
\* expedited queue
get_exp_wait_time_without_flag(c, s) ==
    LET runs == exp_wait_loop(c, MinutesPerHour * Len(s.queue), MinutesPerHour * Len(s.exp_queue), 0)
    IN  IF runs = Diverges THEN Diverges ELSE runs * c.run_time + s.run_time_remaining

get_exp_wait_time(c, s) ==
    IF c.expedited_queue
    THEN LET runs == exp_wait_loop(c, MinutesPerHour * Len(s.queue), MinutesPerHour * Len(s.exp_queue), 0)
         IN  IF runs = Diverges THEN Diverges ELSE runs * c.run_time + s.run_time_remaining
    ELSE 0

\* variant: the loop of get_wait_time counts down on the live standby queue
after_get_wait_time_on_live_queue(c, s) ==
    [s EXCEPT !.queue = Drop(@, capacity60(c) \div MinutesPerHour)]

\* the attraction after get_wait_time returned: queue_len, exp_queue_len,
\* exp_seats, standby_seats and runs are locals, nothing of self is assigned
after_get_wait_time(c, s) == s

\* the attraction after get_exp_wait_time returned: the same locals
after_get_exp_wait_time(c, s) == s

add_to_queue(s, agent_id) == [s EXCEPT !.queue = Append(@, agent_id)]

\* the state after the append of add_to_exp_queue (its result is get_exp_wait_time)
add_to_exp_queue(s, agent_id) == [s EXCEPT !.exp_queue = Append(@, agent_id)]

\* the pass budget is held * ratio_den
remove_pass(c, s) ==
    [s EXCEPT !.exp_queue_passes = @ - c.ratio_den,
              !.exp_queue_passes_distributed = @ + 1]

\* list.remove(agent_id) deletes the first occurrence
return_pass(c, s, agent_id) ==
    [s EXCEPT !.exp_queue_passes = @ + c.ratio_den,
              !.exp_queue_passes_distributed = @ - 1,
              !.exp_queue = RemoveAt(@, IndexOf(@, agent_id))]

\* expedited throughput per hour, capacity * (60 / run_time) * ratio, held * ratio_den
exp_rate(c) == c.hourly_throughput * c.ratio_num

\* variant: the budget is left as it is once the park has closed
pass_budget_kept_after_close(c, s, t, park_close) ==
    IF t < park_close
    THEN LET remaining_operating_hours == (park_close - t) \div MinutesPerHour
             passed_operating_hours == t \div MinutesPerHour
         IN  exp_rate(c) * remaining_operating_hours
               - Max(s.exp_queue_passes_distributed * c.ratio_den
                        - exp_rate(c) * passed_operating_hours, 0)
    ELSE s.exp_queue_passes

\* the budget assigned at the top of Attraction.step (held * ratio_den)
pass_budget(c, s, t, park_close) ==
    IF t < park_close
    THEN LET remaining_operating_hours == (park_close - t) \div MinutesPerHour
             passed_operating_hours == t \div MinutesPerHour
         IN  exp_rate(c) * remaining_operating_hours
               - Max(s.exp_queue_passes_distributed * c.ratio_den
                        - exp_rate(c) * passed_operating_hours, 0)
    ELSE 0

\* variant: every seat is offered to the expedited queue
max_exp_queue_agents_whole_capacity(c) == capacity60(c) \div MinutesPerHour

max_exp_queue_agents(c) == exp_seats(c)

\* variant: the standby queue is offered every seat whatever the expedited queue took
max_queue_agents_whole_capacity(c, s) == capacity60(c) \div MinutesPerHour

\* variant: the standby queue never gets a seat of the expedited allotment
max_queue_agents_fixed_split(c, s) ==
    (capacity60(c) - MinutesPerHour * max_exp_queue_agents(c)) \div MinutesPerHour

\* int(capacity - len(exp_queue)) or int(capacity - max_exp_queue_agents)
max_queue_agents(c, s) ==
    IF Len(s.exp_queue) < max_exp_queue_agents(c)
    THEN (capacity60(c) - MinutesPerHour * Len(s.exp_queue)) \div MinutesPerHour
    ELSE (capacity60(c) - MinutesPerHour * max_exp_queue_agents(c)) \div MinutesPerHour

\* variant: the standby seats go to the agents that joined last
attraction_step_newest_first(c, s, t, park_close) ==
    LET s1 == IF c.expedited_queue
              THEN [s EXCEPT !.exp_queue_passes = pass_budget(c, s, t, park_close)]
              ELSE s
    IN  IF s1.run_time_remaining = 0
        THEN LET expedited_agents_to_load == Take(s1.exp_queue, max_exp_queue_agents(c))
                 kept == Max(Len(s1.queue) - max_queue_agents(c, s1), 0)
                 agents_to_load == Drop(s1.queue, kept)
                 loaded == expedited_agents_to_load \o agents_to_load
             IN  [state |-> [s1 EXCEPT !.agents_in_attraction = loaded,
                                       !.run_time_remaining = c.run_time,
                                       !.exp_queue = Drop(s1.exp_queue, max_exp_queue_agents(c)),
                                       !.queue = Take(s1.queue, kept)],
                  exiting_agents |-> s1.agents_in_attraction,
                  loaded_agents |-> loaded,
                  expedited_agents_to_load |-> expedited_agents_to_load,
                  loading |-> TRUE]
        ELSE [state |-> s1, exiting_agents |-> <<>>, loaded_agents |-> <<>>,
              expedited_agents_to_load |-> <<>>, loading |-> FALSE]

\* Attraction.step: the new state and the two lists it returns
attraction_step(c, s, t, park_close) ==
    LET s1 == IF c.expedited_queue
              THEN [s EXCEPT !.exp_queue_passes = pass_budget(c, s, t, park_close)]
              ELSE s
    IN  IF s1.run_time_remaining = 0
        THEN LET expedited_agents_to_load == Take(s1.exp_queue, max_exp_queue_agents(c))
                 agents_to_load == Take(s1.queue, max_queue_agents(c, s1))
                 loaded == expedited_agents_to_load \o agents_to_load
             IN  [state |-> [s1 EXCEPT !.agents_in_attraction = loaded,
                                       !.run_time_remaining = c.run_time,
                                       !.exp_queue = Drop(s1.exp_queue, max_exp_queue_agents(c)),
                                       !.queue = Drop(s1.queue, max_queue_agents(c, s1))],
                  exiting_agents |-> s1.agents_in_attraction,
                  loaded_agents |-> loaded,
                  expedited_agents_to_load |-> expedited_agents_to_load,
                  loading |-> TRUE]
        ELSE [state |-> s1, exiting_agents |-> <<>>, loaded_agents |-> <<>>,
              expedited_agents_to_load |-> <<>>, loading |-> FALSE]

\* variant: two minutes of the cycle pass in one tick
attraction_pass_time_two_minutes(s) == [s EXCEPT !.run_time_remaining = @ - 2]

attraction_pass_time(s) ==
    [s EXCEPT !.run_time_remaining = @ - 1]

-----------------------------------------------------------------------------
(* Activity (Code/activity.py)                                             *)

initialize_activity == [visitors |-> <<>>, visitor_time_remaining |-> <<>>]

\* variant: only the countdowns that are still ahead cap the stay
capped_stay_by_positive_deadlines(drawn, expedited_return_time) ==
    LET ahead == SelectSeq(expedited_return_time, LAMBDA d : d > 0)
    IN  IF ahead # <<>> THEN Min(SeqMin(ahead), drawn) ELSE drawn

\* the stay appended by add_to_activity for a drawn stay time >= 1
capped_stay(drawn, expedited_return_time) ==
    IF expedited_return_time # <<>>
    THEN Min(Max(1, SeqMin(expedited_return_time)), drawn)
    ELSE drawn

add_to_activity(v, agent_id, drawn, expedited_return_time) ==
    [v EXCEPT !.visitors = Append(@, agent_id),
              !.visitor_time_remaining = Append(@, capped_stay(drawn, expedited_return_time))]

\* variant: the time entry deleted is the newest one
force_exit_deleting_newest_time(v, agent_id) ==
    [v EXCEPT !.visitors = RemoveAt(@, IndexOf(@, agent_id)),
              !.visitor_time_remaining = RemoveAt(@, Len(@))]

force_exit(v, agent_id) ==
    LET ind == IndexOf(v.visitors, agent_id)
    IN  [v EXCEPT !.visitors = RemoveAt(@, ind),
                  !.visitor_time_remaining = RemoveAt(@, ind)]

\* Activity.step : the visitors whose time is 0 leave; the returned list is in
\* descending index order
RECURSIVE reverse(_)
reverse(s) == IF s = <<>> THEN <<>> ELSE Append(reverse(Tail(s)), Head(s))

RECURSIVE visitors_with(_, _, _)
visitors_with(visitor_ids, times, zero) ==
    IF visitor_ids = <<>> THEN <<>>
    ELSE (IF (Head(times) = 0) = zero THEN <<Head(visitor_ids)>> ELSE <<>>)
            \o visitors_with(Tail(visitor_ids), Tail(times), zero)

\* variant: of the visitors that leave together only the last one's time
\* entry is deleted
activity_step_deleting_one_time(v) ==
    LET leaving == {i \in 1..Len(v.visitors) : v.visitor_time_remaining[i] = 0}
    IN  [state |-> [visitors |-> visitors_with(v.visitors, v.visitor_time_remaining, FALSE),
                    visitor_time_remaining |->
                        IF leaving = {} THEN v.visitor_time_remaining
                        ELSE RemoveAt(v.visitor_time_remaining,
                                      CHOOSE i \in leaving : \A j \in leaving : j <= i)],
         exiting_agents |-> reverse(visitors_with(v.visitors, v.visitor_time_remaining, TRUE))]

activity_step(v) ==
    [state |-> [visitors |-> visitors_with(v.visitors, v.visitor_time_remaining, FALSE),
                visitor_time_remaining |-> SelectSeq(v.visitor_time_remaining, LAMBDA x : x # 0)],
     exiting_agents |-> reverse(visitors_with(v.visitors, v.visitor_time_remaining, TRUE))]

\* variant: only the first visitor's minute passes
activity_pass_time_first_visitor(v) ==
    [v EXCEPT !.visitor_time_remaining = [i \in 1..Len(@) |-> IF i = 1 THEN @[i] - 1 ELSE @[i]]]

activity_pass_time(v) ==
    [v EXCEPT !.visitor_time_remaining = [i \in 1..Len(@) |-> @[i] - 1]]

-----------------------------------------------------------------------------
(* Agent (Code/agent.py)                                                   *)

None == "None"

\* the classes in the order of the age_class_distribution dictionary
AgeClassOrder == <<"no_child_rides", "no_adult_rides", "no_preference">>

\* variant: a class is returned when the draw equals its floor
RECURSIVE age_class_from_inclusive(_, _, _, _)
age_class_from_inclusive(age_class_distribution, rng, i, floor) ==
    IF i > Len(AgeClassOrder) THEN None
    ELSE IF rng <= floor + age_class_distribution[i]
         THEN AgeClassOrder[i]
         ELSE age_class_from_inclusive(age_class_distribution, rng, i + 1,
                                       floor + age_class_distribution[i])

select_age_class_floor_inclusive(age_class_distribution, rng) ==
    age_class_from_inclusive(age_class_distribution, rng, 1, 0)

\* the loop of select_age_class; falling out of it returns None
RECURSIVE age_class_from(_, _, _, _)
age_class_from(age_class_distribution, rng, i, floor) ==
    IF i > Len(AgeClassOrder) THEN None
    ELSE IF rng < floor + age_class_distribution[i]
         THEN AgeClassOrder[i]
         ELSE age_class_from(age_class_distribution, rng, i + 1,
                             floor + age_class_distribution[i])

\* select_age_class for a draw rng of random.uniform(0, sum of the weights)
select_age_class(age_class_distribution, rng) ==
    age_class_from(age_class_distribution, rng, 1, 0)

\* Agent.state and Agent.behavior after initialize_agent, for a drawn profile
initialize_agent(profile) ==
    [arrival_time |-> -1, within_park |-> FALSE,
     current_location |-> None, current_action |-> None,
     expedited_return_time |-> <<>>, expedited_pass |-> <<>>,
     expedited_pass_ability |-> profile.expedited_pass_ability,
     age_class |-> profile.age_class,
     allow_repeats |-> profile.allow_repeats,
     wait_threshold |-> profile.wait_threshold,
     times_completed |-> [n \in AttractionNames |-> 0]]

arrive_at_park(ag, t) ==
    [ag EXCEPT !.within_park = TRUE, !.arrival_time = t,
               !.current_location = "gate", !.current_action = "idling"]

\* variant: no attraction is filtered out by age class
age_eligible_unfiltered(ag, c) == TRUE

\* the age filter of decide_attraction_or_activity
age_eligible(ag, c) ==
    CASE ag.age_class = "no_child_rides" ->
            (c.child_eligible /\ c.adult_eligible) \/ (c.adult_eligible /\ ~c.child_eligible)
      [] ag.age_class = "no_adult_rides" ->
            (c.child_eligible /\ c.adult_eligible) \/ (c.child_eligible /\ ~c.adult_eligible)
      [] OTHER -> TRUE

\* variant: attractions the agent holds a pass for stay eligible
valid_attractions_with_held(ag, chars) ==
    {n \in AttractionNames :
        /\ (ag.allow_repeats \/ ag.times_completed[n] = 0)
        /\ age_eligible(ag, chars[n])}

\* valid_attractions of decide_attraction_or_activity when the coinflip chooses attractions
valid_attractions(ag, chars) ==
    {n \in AttractionNames :
        /\ n \notin Range(ag.expedited_pass)
        /\ (ag.allow_repeats \/ ag.times_completed[n] = 0)
        /\ age_eligible(ag, chars[n])}

\* select_attraction_decision: every (action, location) some sequence of
\* popularity draws can return; NoAction is the (None, None) result
NoAction == [action |-> None, location |-> None]

RECURSIVE select_attraction_decision(_, _, _, _, _)

\* variant: a candidate that offers no pass is chosen whatever its wait
select_attraction_decision_any_wait(ag, valid, chars, attrs, thresholds) ==
    IF valid = {} THEN {NoAction}
    ELSE { IF /\ get_wait_time(chars[desired_attraction], attrs[desired_attraction])
                    > thresholds.exp_wait_threshold
              /\ ag.expedited_pass_ability
              /\ Len(ag.expedited_pass) < thresholds.exp_limit
              /\ chars[desired_attraction].expedited_queue
              /\ attrs[desired_attraction].exp_queue_passes > 0
           THEN [action |-> "get pass", location |-> desired_attraction]
           ELSE [action |-> "traveling", location |-> desired_attraction]
           : desired_attraction \in valid }

select_attraction_decision(ag, valid, chars, attrs, thresholds) ==
    IF valid = {} THEN {NoAction}
    ELSE UNION {
        LET wait == get_wait_time(chars[desired_attraction], attrs[desired_attraction])
        IN  IF /\ wait > thresholds.exp_wait_threshold
               /\ ag.expedited_pass_ability
               /\ Len(ag.expedited_pass) < thresholds.exp_limit
               /\ chars[desired_attraction].expedited_queue
               /\ attrs[desired_attraction].exp_queue_passes > 0
            THEN {[action |-> "get pass", location |-> desired_attraction]}
            ELSE IF wait > ag.wait_threshold + chars[desired_attraction].popularity * 6
            THEN select_attraction_decision(ag, valid \ {desired_attraction}, chars, attrs, thresholds)
            ELSE IF \E i \in 1..Len(ag.expedited_return_time) :
                        ag.expedited_return_time[i] < wait + chars[desired_attraction].run_time
            THEN select_attraction_decision(ag, valid \ {desired_attraction}, chars, attrs, thresholds)
            ELSE {[action |-> "traveling", location |-> desired_attraction]}
        : desired_attraction \in valid }

\* select_activity_decision: an activity of positive popularity
select_activity_decision == {[action |-> "traveling", location |-> v] : v \in ActivityNames}

\* make_attraction_activity_decision: both outcomes of the coinflip
make_attraction_activity_decision(ag, chars, attrs, thresholds) ==
    LET valid == valid_attractions(ag, chars)
        chosen == select_attraction_decision(ag, valid, chars, attrs, thresholds)
    IN  select_activity_decision \cup (chosen \ {NoAction})

\* decide_to_leave_park: no decision on the arrival minute, else either
\* outcome of the normal draw
decide_to_leave_park(ag, t) ==
    IF t # ag.arrival_time
    THEN {[action |-> "leaving", location |-> "gate"], NoAction}
    ELSE {NoAction}

\* make_state_change_decision: the assignment made under park_closed is
\* overwritten by the result of decide_to_leave_park
make_state_change_decision(ag, chars, attrs, t, park_closed, thresholds) ==
    LET leave == decide_to_leave_park(ag, t)
    IN  (leave \ {NoAction})
          \cup (IF NoAction \in leave
                THEN make_attraction_activity_decision(ag, chars, attrs, thresholds)
                ELSE {})

agent_pass_time(ag) ==
    IF ag.within_park /\ ag.expedited_pass # <<>>
    THEN [ag EXCEPT !.expedited_return_time = [i \in 1..Len(@) |-> @[i] - 1]]
    ELSE ag

leave_park(ag) ==
    [ag EXCEPT !.within_park = FALSE, !.current_location = "outside park",
               !.current_action = None]

enter_queue(ag, attraction) ==
    [ag EXCEPT !.current_location = attraction, !.current_action = "queueing"]

begin_activity(ag, activity) ==
    [ag EXCEPT !.current_location = activity, !.current_action = "browsing"]

get_pass(ag, attraction) ==
    [ag EXCEPT !.current_location = "gate", !.current_action = "getting pass",
               !.expedited_pass = Append(@, attraction)]

assign_expedited_return_time(ag, expedited_wait_time) ==
    [ag EXCEPT !.expedited_return_time = Append(@, expedited_wait_time),
               !.current_action = "idling"]

return_exp_pass(ag, attraction) ==
    LET ind_to_remove == LastIndexOf(ag.expedited_pass, attraction)
    IN  [ag EXCEPT !.expedited_pass = RemoveAt(@, ind_to_remove),
                   !.expedited_return_time = RemoveAt(@, ind_to_remove)]

agent_exited_attraction(ag, name) ==
    [ag EXCEPT !.current_location = "gate", !.current_action = "idling",
               !.times_completed[name] = @ + 1]

\* agent_boarded_attraction returns True exactly when name is a held pass
redeems(ag, name) == name \in Range(ag.expedited_pass)

\* variant: the redeemed pass is deleted but its countdown is kept
agent_boarded_attraction_keeps_countdown(ag, name) ==
    LET ind_to_remove == LastIndexOf(ag.expedited_pass, name)
        ag1 == IF redeems(ag, name)
               THEN [ag EXCEPT !.expedited_pass = RemoveAt(@, ind_to_remove)]
               ELSE ag
    IN  [ag1 EXCEPT !.current_location = name, !.current_action = "riding"]

agent_boarded_attraction(ag, name) ==
    LET ind_to_remove == LastIndexOf(ag.expedited_pass, name)
        ag1 == IF redeems(ag, name)
               THEN [ag EXCEPT !.expedited_pass = RemoveAt(@, ind_to_remove),
                               !.expedited_return_time = RemoveAt(@, ind_to_remove)]
               ELSE ag
    IN  [ag1 EXCEPT !.current_location = name, !.current_action = "riding"]

agent_exited_activity(ag) ==
    [ag EXCEPT !.current_location = "gate", !.current_action = "idling"]

-----------------------------------------------------------------------------
(* Park (Code/park.py)                                                     *)

\* profiles drawn for an agent by generate_agents / initialize_agent
Profiles ==
    { [expedited_pass_ability |-> TRUE, age_class |-> "no_preference",
       allow_repeats |-> TRUE, wait_threshold |-> 90],
      [expedited_pass_ability |-> TRUE, age_class |-> "no_adult_rides",
       allow_repeats |-> FALSE, wait_threshold |-> 90] }

\* park_close values left by generate_arrival_schedule (hour * 60)
ParkCloseValues == {0, 2 * MinutesPerHour}

\* Engine inputs.  arrival_minutes are the minutes of the schedule that may
\* hold arrivals, last_minute the number of minutes the caller steps the park,
\* stay_draws the values the activity stay-time draw may take.
Configs ==
    [attraction_list : AttractionLists,
     park_close : ParkCloseValues,
     exp_wait_threshold : {0},
     exp_limit : {2},
     profile : [Agents -> Profiles],
     arrival_minutes : {0..(MaxTime - 1)},
     last_minute : {MaxTime},
     stay_draws : {1..MaxStay}]

attraction_characteristics == cfg.attraction_list
\* variant: an agent may take one pass more than exp_limit
thresholds_one_more_pass ==
    [exp_wait_threshold |-> cfg.exp_wait_threshold, exp_limit |-> cfg.exp_limit + 1]

\* exp_wait_threshold and exp_limit handed to every agent by generate_agents
thresholds == [exp_wait_threshold |-> cfg.exp_wait_threshold, exp_limit |-> cfg.exp_limit]

NoDecision == [agent |-> -1, action |-> None, location |-> None, park_closed |-> FALSE]
NoStep == [name |-> None, exiting_agents |-> <<>>, loaded_agents |-> <<>>,
           expedited_agents_to_load |-> <<>>, loading |-> FALSE]

\* get_idle_agent_ids, in the id order of the agents dictionary
RECURSIVE idle_from(_, _)
idle_from(ags, agent_id) ==
    IF agent_id >= NumAgents THEN <<>>
    ELSE (IF ags[agent_id].within_park /\ ags[agent_id].current_action = "idling"
          THEN <<agent_id>> ELSE <<>>) \o idle_from(ags, agent_id + 1)

\* every agent within the park, whatever it is doing
get_idle_agent_ids_all_present(ags) ==
    SelectSeq([i \in 1..NumAgents |-> i - 1], LAMBDA agent_id : ags[agent_id].within_park)

get_idle_agent_ids(ags) ==
    idle_from(ags, 0)

\* the loop "for attraction in agent.state['expedited_pass']" of
\* update_park_state, which reads position i of the list it is shortening
RECURSIVE return_passes(_, _, _, _, _)
return_passes(i, ag, attrs, agent_id, returned) ==
    IF i > Len(ag.expedited_pass)
    THEN [agent |-> ag, attractions |-> attrs, returned |-> returned, raised |-> FALSE]
    ELSE LET attraction == ag.expedited_pass[i]
         IN  IF agent_id \notin Range(attrs[attraction].exp_queue)
             THEN [agent |-> ag, attractions |-> attrs, returned |-> returned, raised |-> TRUE]
             ELSE return_passes(i + 1, return_exp_pass(ag, attraction),
                                [attrs EXCEPT ![attraction] =
                                     return_pass(attraction_characteristics[attraction], @, agent_id)],
                                agent_id, returned \cup {attraction})

\* calculate_total_active_agents
total_active_agents(ags) == Cardinality({a \in Agents : ags[a].within_park})

\* the state of a new Park with its agents, attractions and activities
InitPark ==
    /\ time = 0
    /\ arrival_index = 0
    /\ agents = [a \in Agents |-> initialize_agent(cfg.profile[a])]
    /\ attractions = [n \in AttractionNames |-> initialize_attraction]
    /\ activities = [v \in ActivityNames |-> initialize_activity]
    /\ history = [total_active_agents |-> 0, distributed_passes |-> 0, redeemed_passes |-> 0,
                  exp_queue_wait_time |-> [n \in AttractionNames |-> <<>>]]
    /\ pc = "arrivals"
    /\ idle_agent_ids = <<>>
    /\ attr_idx = 1
    /\ decision = NoDecision
    /\ step_result = NoStep
    /\ pass_countdown = [a \in Agents |-> <<>>]
    /\ gen = None
    /\ parks = None
    /\ obj = None

Init == cfg \in Configs /\ InitPark

\* Park.step, lines 156-165: schedule[time] agents arrive, the idle agents are listed
Arrivals ==
    /\ pc = "arrivals"
    /\ time < cfg.last_minute
    /\ \E total_arrivals \in (IF time \in cfg.arrival_minutes
                              THEN 0..(NumAgents - arrival_index) ELSE {0}) :
          LET ags == [a \in Agents |->
                        IF a >= arrival_index /\ a < arrival_index + total_arrivals
                        THEN arrive_at_park(agents[a], time) ELSE agents[a]]
          IN  /\ agents' = ags
              /\ arrival_index' = arrival_index + total_arrivals
              /\ idle_agent_ids' = get_idle_agent_ids(ags)
              /\ pc' = IF get_idle_agent_ids(ags) = <<>> THEN "attractions" ELSE "decisions"
    /\ attr_idx' = 1
    /\ UNCHANGED <<cfg, time, attractions, activities, history, decision, step_result,
                   pass_countdown, gen, parks, obj>>

\* update_park_state for action "leaving"
ApplyLeaving(agent_id) ==
    LET r == return_passes(1, agents[agent_id], attractions, agent_id, {})
    IN  /\ agents' = [agents EXCEPT ![agent_id] = IF r.raised THEN r.agent ELSE leave_park(r.agent)]
        /\ attractions' = r.attractions
        /\ pass_countdown' = [pass_countdown EXCEPT ![agent_id] =
                                 [n \in (DOMAIN @) \ r.returned |-> @[n]]]
        /\ pc' = IF r.raised THEN "raised"
                 ELSE IF Len(idle_agent_ids) = 1 THEN "attractions" ELSE "decisions"
        /\ UNCHANGED <<activities, history>>

\* update_park_state for action "traveling"
ApplyTraveling(agent_id, location, drawn_stay) ==
    /\ IF location \in AttractionNames
       THEN /\ agents' = [agents EXCEPT ![agent_id] = enter_queue(@, location)]
            /\ attractions' = [attractions EXCEPT ![location] = add_to_queue(@, agent_id)]
            /\ UNCHANGED activities
       ELSE /\ agents' = [agents EXCEPT ![agent_id] = begin_activity(@, location)]
            /\ activities' = [activities EXCEPT ![location] =
                                 add_to_activity(@, agent_id, drawn_stay,
                                                 agents[agent_id].expedited_return_time)]
            /\ UNCHANGED attractions
    /\ pc' = IF Len(idle_agent_ids) = 1 THEN "attractions" ELSE "decisions"
    /\ UNCHANGED <<history, pass_countdown>>

\* Park.step line 176 and update_park_state for action "get pass"; the call of
\* get_exp_wait_time inside add_to_exp_queue may never return
ApplyGetPass(agent_id, location) ==
    LET queued == add_to_exp_queue(remove_pass(attraction_characteristics[location], attractions[location]), agent_id)
        expedited_wait_time == get_exp_wait_time(attraction_characteristics[location], queued)
    IN  /\ history' = [history EXCEPT !.distributed_passes = @ + 1]
        /\ attractions' = [attractions EXCEPT ![location] = queued]
        /\ agents' = [agents EXCEPT ![agent_id] =
                         IF expedited_wait_time = Diverges
                         THEN get_pass(@, location)
                         ELSE assign_expedited_return_time(get_pass(@, location), expedited_wait_time)]
        /\ pass_countdown' =
              IF expedited_wait_time = Diverges THEN pass_countdown
              ELSE [pass_countdown EXCEPT ![agent_id] =
                       [n \in (DOMAIN @) \cup {location} |->
                           IF n = location THEN expedited_wait_time ELSE @[n]]]
        /\ pc' = IF expedited_wait_time = Diverges THEN "hung"
                 ELSE IF Len(idle_agent_ids) = 1 THEN "attractions" ELSE "decisions"
        /\ UNCHANGED activities

\* Park.step, lines 168-183: the next idle agent decides and the decision is applied
Decide ==
    /\ pc = "decisions"
    /\ idle_agent_ids # <<>>
    /\ LET agent_id == Head(idle_agent_ids)
           park_closed == cfg.park_close <= time
       IN  \E d \in make_state_change_decision(agents[agent_id], attraction_characteristics, attractions,
                                               time, park_closed, thresholds) :
           \E drawn_stay \in cfg.stay_draws :
              /\ (d.location \notin ActivityNames) => drawn_stay = 1
              /\ decision' = [agent |-> agent_id, action |-> d.action,
                              location |-> d.location, park_closed |-> park_closed]
              /\ CASE d.action = "leaving" -> ApplyLeaving(agent_id)
                   [] d.action = "traveling" -> ApplyTraveling(agent_id, d.location, drawn_stay)
                   [] d.action = "get pass" -> ApplyGetPass(agent_id, d.location)
    /\ idle_agent_ids' = Tail(idle_agent_ids)
    /\ UNCHANGED <<cfg, time, arrival_index, attr_idx, step_result, gen, parks, obj>>

\* Park.step, lines 188-189: the agents returned as exiting
RECURSIVE route_exiting(_, _, _)
route_exiting(ags, exiting_agents, name) ==
    IF exiting_agents = <<>> THEN ags
    ELSE route_exiting([ags EXCEPT ![Head(exiting_agents)] = agent_exited_attraction(@, name)],
                       Tail(exiting_agents), name)

\* Park.step, lines 190-200: the agents returned as loaded; r carries the
\* agents, the activities, the redeemed counter and whether force_exit raised
RECURSIVE route_loaded(_, _, _)
route_loaded(r, loaded_agents, name) ==
    IF loaded_agents = <<>> \/ r.raised THEN r
    ELSE LET agent_id == Head(loaded_agents)
             ag == r.agents[agent_id]
             browsing == ag.current_action = "browsing"
             missing == browsing /\ agent_id \notin Range(r.activities[ag.current_location].visitors)
             acts == IF browsing /\ ~missing
                     THEN [r.activities EXCEPT ![ag.current_location] = force_exit(@, agent_id)]
                     ELSE r.activities
             ag1 == IF browsing THEN agent_exited_activity(ag) ELSE ag
         IN  IF missing
             THEN [r EXCEPT !.raised = TRUE]
             ELSE route_loaded([agents |-> [r.agents EXCEPT ![agent_id] =
                                               agent_boarded_attraction(ag1, name)],
                                activities |-> acts,
                                redeemed_passes |-> r.redeemed_passes
                                                      + (IF redeems(ag1, name) THEN 1 ELSE 0),
                                raised |-> FALSE],
                               Tail(loaded_agents), name)

\* Park.step, lines 186-200, one iteration: an attraction steps and its
\* exiting and loaded agents are told
AttractionStep ==
    /\ pc = "attractions"
    /\ LET name == AttractionOrder[attr_idx]
           r == attraction_step(attraction_characteristics[name], attractions[name],
                                time, cfg.park_close)
           routed == route_loaded([agents |-> route_exiting(agents, r.exiting_agents, name),
                                   activities |-> activities,
                                   redeemed_passes |-> history.redeemed_passes,
                                   raised |-> FALSE],
                                  r.loaded_agents, name)
       IN  /\ attractions' = [attractions EXCEPT ![name] = r.state]
           /\ agents' = routed.agents
           /\ activities' = routed.activities
           /\ history' = [history EXCEPT !.redeemed_passes = routed.redeemed_passes]
           /\ step_result' = [name |-> name, exiting_agents |-> r.exiting_agents,
                              loaded_agents |-> r.loaded_agents,
                              expedited_agents_to_load |-> r.expedited_agents_to_load,
                              loading |-> r.loading]
           /\ pass_countdown' = [a \in Agents |->
                                   IF a \in Range(r.loaded_agents)
                                   THEN [n \in (DOMAIN pass_countdown[a]) \ {name} |->
                                            pass_countdown[a][n]]
                                   ELSE pass_countdown[a]]
           /\ pc' = IF routed.raised THEN "raised"
                    ELSE IF attr_idx = Len(AttractionOrder) THEN "activities" ELSE "attractions"
    /\ attr_idx' = IF attr_idx = Len(AttractionOrder) THEN 1 ELSE attr_idx + 1
    /\ UNCHANGED <<cfg, time, arrival_index, idle_agent_ids, decision, gen, parks, obj>>

\* Park.step, lines 203-206, one iteration: an activity steps and its exiting
\* agents are told
RECURSIVE route_activity_exits(_, _)
route_activity_exits(ags, exiting_agents) ==
    IF exiting_agents = <<>> THEN ags
    ELSE route_activity_exits([ags EXCEPT ![Head(exiting_agents)] = agent_exited_activity(@)],
                              Tail(exiting_agents))

ActivityStep ==
    /\ pc = "activities"
    /\ LET name == ActivityOrder[attr_idx]
           r == activity_step(activities[name])
       IN  /\ activities' = [activities EXCEPT ![name] = r.state]
           /\ agents' = route_activity_exits(agents, r.exiting_agents)
    /\ pc' = IF attr_idx = Len(ActivityOrder) THEN "pass_time" ELSE "activities"
    /\ attr_idx' = IF attr_idx = Len(ActivityOrder) THEN 1 ELSE attr_idx + 1
    /\ UNCHANGED <<cfg, time, arrival_index, attractions, history, idle_agent_ids,
                   decision, step_result, pass_countdown, gen, parks, obj>>

\* store_history evaluates both estimates; the attractions, in registry
\* order, on which get_exp_wait_time never returns
RECURSIVE first_diverging(_, _)
first_diverging(attrs, i) ==
    IF i > Len(AttractionOrder) THEN 0
    ELSE IF get_exp_wait_time(attraction_characteristics[AttractionOrder[i]],
                              attrs[AttractionOrder[i]]) = Diverges
         THEN i
         ELSE first_diverging(attrs, i + 1)

\* Attraction.store_history: the entry written to history["exp_queue_wait_time"]
\* in this minute (the model keeps the newest entry of each attraction)
store_history(attrs) ==
    [n \in AttractionNames |-> <<get_exp_wait_time(attraction_characteristics[n], attrs[n])>>]

\* Park.step, lines 209-225: time counters, history, the clock
PassTime ==
    /\ pc = "pass_time"
    /\ LET passed == [n \in AttractionNames |-> attraction_pass_time(attractions[n])]
           stuck == first_diverging(passed, 1)
       IN  /\ agents' = [a \in Agents |-> agent_pass_time(agents[a])]
           /\ pass_countdown' = [a \in Agents |->
                                   IF agents[a].within_park
                                   THEN [n \in DOMAIN pass_countdown[a] |-> pass_countdown[a][n] - 1]
                                   ELSE pass_countdown[a]]
           /\ IF stuck = 0
              THEN /\ attractions' = passed
                   /\ activities' = [v \in ActivityNames |-> activity_pass_time(activities[v])]
                   /\ history' = [history EXCEPT !.total_active_agents = total_active_agents(agents),
                                                 !.exp_queue_wait_time = store_history(passed)]
                   /\ time' = time + 1
                   /\ pc' = "arrivals"
              ELSE /\ attractions' = [n \in AttractionNames |->
                                         IF \E i \in 1..stuck : AttractionOrder[i] = n
                                         THEN passed[n] ELSE attractions[n]]
                   /\ pc' = "hung"
                   /\ UNCHANGED <<activities, history, time>>
    /\ decision' = NoDecision
    /\ step_result' = NoStep
    /\ UNCHANGED <<cfg, arrival_index, idle_agent_ids, attr_idx, gen, parks, obj>>

Next == Arrivals \/ Decide \/ AttractionStep \/ ActivityStep \/ PassTime

Spec == Init /\ [][Next]_vars

-----------------------------------------------------------------------------
(* The engine stepped past closing                                         *)

\* attractions whose run cycle lasts the whole first hour
DayAttractionLists ==
    { [n \in AttractionNames |->
          IF n = "A1" THEN Characteristics(60, 3, 1, TRUE, TRUE, TRUE, 1, 2)
                      ELSE Characteristics(30, 4, 2, TRUE, TRUE, TRUE, 1, 2)],
      \* capacity 2 whose expedited share rounds to no seat, so that a pass
      \* is never redeemed; capacity 2 without expedited queue
      [n \in AttractionNames |->
          IF n = "A1" THEN Characteristics(60, 2, 1, TRUE, TRUE, TRUE, 1, 4)
                      ELSE Characteristics(30, 4, 2, TRUE, TRUE, FALSE, 0, 1)] }

DayConfigs ==
    [attraction_list : DayAttractionLists,
     park_close : {MinutesPerHour},
     exp_wait_threshold : {0},
     exp_limit : {2},
     profile : {[a \in Agents |-> p] : p \in Profiles},
     arrival_minutes : {{1}},
     last_minute : {DayMinutes},
     stay_draws : {{1}}]

InitDay == cfg \in DayConfigs /\ InitPark

SpecDay == InitDay /\ [][Next]_vars

-----------------------------------------------------------------------------
(* Park.generate_arrival_schedule, one loop iteration per step             *)

MaxHours == 3
MaxDailyAgents == 2
MaxArrivals == 2

\* the fields of a Park left by __init__, before any generate_* call
NewPark ==
    /\ time = 0
    /\ arrival_index = 0
    /\ agents = <<>>
    /\ attractions = <<>>
    /\ activities = <<>>
    /\ history = [total_active_agents |-> 0, distributed_passes |-> 0, redeemed_passes |-> 0]
    /\ pc = None
    /\ idle_agent_ids = <<>>
    /\ attr_idx = 1
    /\ decision = NoDecision
    /\ step_result = NoStep
    /\ pass_countdown = <<>>

\* self.park_close = None, the value before a zero-percentage hour is met
Unset == -1

\* arrival_seed: the hourly percentages in the order of the dictionary
Percentages == {0, 50, 100}
HourTables == UNION {[1..n -> Percentages] : n \in 1..MaxHours}

\* sum(arrival_seed.values())
RECURSIVE SeqSum(_)
SeqSum(s) == IF s = <<>> THEN 0 ELSE Head(s) + SeqSum(Tail(s))

\* sum(self.schedule.values()), the schedule holding the minutes 0..n-1;
\* the sum over the minutes lo..hi is taken by halves
RECURSIVE sum_between(_, _, _)
sum_between(schedule, lo, hi) ==
    IF lo > hi THEN 0
    ELSE IF lo = hi THEN schedule[lo]
    ELSE sum_between(schedule, lo, (lo + hi) \div 2)
            + sum_between(schedule, ((lo + hi) \div 2) + 1, hi)

schedule_total(schedule) == sum_between(schedule, 0, Cardinality(DOMAIN schedule) - 1)

\* rng.poisson(lam, size=60) for lam = total_daily_agents * arrival_pct * 0.01 / 60:
\* sixty zeros for lam = 0, else any counts; the draws enumerated leave one
\* minute of the hour, its first or its last, with up to MaxArrivals arrivals
poisson(lam_numerator) ==
    IF lam_numerator = 0
    THEN {[m \in 0..(MinutesPerHour - 1) |-> 0]}
    ELSE {[m \in 0..(MinutesPerHour - 1) |-> IF m = at THEN n ELSE 0] :
             at \in {0, MinutesPerHour - 1}, n \in 0..MaxArrivals}

\* the arguments of the call and the fields it writes
new_frame(arrival_seed, total_daily_agents, perfect_arrivals) ==
    [arrival_seed |-> arrival_seed, total_daily_agents |-> total_daily_agents,
     perfect_arrivals |-> perfect_arrivals,
     schedule |-> [m \in {} |-> 0], park_close |-> Unset,
     hour |-> 0, dif |-> 0, iteration |-> 0, pc |-> "validate", error |-> None]

InitSchedule ==
    /\ cfg = None
    /\ NewPark
    /\ parks = None
    /\ obj = None
    /\ \E arrival_seed \in HourTables, total_daily_agents \in 0..MaxDailyAgents,
          perfect_arrivals \in BOOLEAN :
          gen = new_frame(arrival_seed, total_daily_agents, perfect_arrivals)

\* lines 61-69: the two checks on the table
Validate ==
    /\ gen.pc = "validate"
    /\ gen' = IF SeqSum(gen.arrival_seed) # 100 \/ Len(gen.arrival_seed) > 24
              THEN [gen EXCEPT !.pc = "raised", !.error = "AssertionError"]
              ELSE [gen EXCEPT !.pc = IF Len(gen.arrival_seed) = 0 THEN "enforce" ELSE "sampling"]
    /\ UNCHANGED <<cfg, time, arrival_index, agents, attractions, activities, history, pc,
                   idle_agent_ids, attr_idx, decision, step_result, pass_countdown, parks, obj>>

\* lines 72-88, one iteration: "not self.park_close" holds for None and for 0
SampleHour ==
    /\ gen.pc = "sampling"
    /\ LET hour == gen.hour
           arrival_pct == gen.arrival_seed[hour + 1]
           park_close == IF arrival_pct = 0 /\ gen.park_close \in {Unset, 0}
                         THEN hour * MinutesPerHour ELSE gen.park_close
       IN  \E minute_arrivals \in poisson(gen.total_daily_agents * arrival_pct) :
              gen' = [gen EXCEPT
                        !.park_close = park_close,
                        !.schedule = [exact_minute \in 0..(MinutesPerHour * (hour + 1) - 1) |->
                                         IF exact_minute < MinutesPerHour * hour
                                         THEN gen.schedule[exact_minute]
                                         ELSE minute_arrivals[exact_minute - MinutesPerHour * hour]],
                        !.hour = hour + 1,
                        !.pc = IF hour + 1 = Len(gen.arrival_seed) THEN "enforce" ELSE "sampling"]
    /\ UNCHANGED <<cfg, time, arrival_index, agents, attractions, activities, history, pc,
                   idle_agent_ids, attr_idx, decision, step_result, pass_countdown, parks, obj>>

\* lines 91-95: the difference to correct, when exact arrivals are asked for
EnforceTotal ==
    /\ gen.pc = "enforce"
    /\ LET dif == schedule_total(gen.schedule) - gen.total_daily_agents
       IN  gen' = IF gen.perfect_arrivals
                  THEN [gen EXCEPT !.dif = dif,
                                   !.pc = IF dif > 0 THEN "decrement"
                                          ELSE IF dif < 0 THEN "increment" ELSE "assert"]
                  ELSE [gen EXCEPT !.pc = "done"]
    /\ UNCHANGED <<cfg, time, arrival_index, agents, attractions, activities, history, pc,
                   idle_agent_ids, attr_idx, decision, step_result, pass_countdown, parks, obj>>

\* every minute of the schedule, whatever its count
positive_keys_any_count(schedule) == DOMAIN schedule

\* the list random.choice draws from, lines 96 and 100
positive_keys(schedule) ==
    {key \in DOMAIN schedule : schedule[key] > 0}

\* lines 95-97, one iteration of "for _ in range(dif)", the iterations done
\* counted in iteration; random.choice of an empty list raises IndexError
CorrectDown ==
    /\ gen.pc = "decrement"
    /\ IF positive_keys(gen.schedule) = {}
       THEN gen' = [gen EXCEPT !.pc = "raised", !.error = "IndexError"]
       ELSE \E rng_key \in positive_keys(gen.schedule) :
               gen' = [gen EXCEPT !.schedule[rng_key] = @ - 1,
                                  !.iteration = @ + 1,
                                  !.pc = IF gen.iteration + 1 = gen.dif
                                         THEN "assert" ELSE "decrement"]
    /\ UNCHANGED <<cfg, time, arrival_index, agents, attractions, activities, history, pc,
                   idle_agent_ids, attr_idx, decision, step_result, pass_countdown, parks, obj>>

\* lines 100-102, one iteration
CorrectUp ==
    /\ gen.pc = "increment"
    /\ IF positive_keys(gen.schedule) = {}
       THEN gen' = [gen EXCEPT !.pc = "raised", !.error = "IndexError"]
       ELSE \E rng_key \in positive_keys(gen.schedule) :
               gen' = [gen EXCEPT !.schedule[rng_key] = @ + 1,
                                  !.iteration = @ + 1,
                                  !.pc = IF gen.iteration + 1 = -gen.dif
                                         THEN "assert" ELSE "increment"]
    /\ UNCHANGED <<cfg, time, arrival_index, agents, attractions, activities, history, pc,
                   idle_agent_ids, attr_idx, decision, step_result, pass_countdown, parks, obj>>

\* line 104
AssertTotal ==
    /\ gen.pc = "assert"
    /\ gen' = IF schedule_total(gen.schedule) = gen.total_daily_agents
              THEN [gen EXCEPT !.pc = "done"]
              ELSE [gen EXCEPT !.pc = "raised", !.error = "AssertionError"]
    /\ UNCHANGED <<cfg, time, arrival_index, agents, attractions, activities, history, pc,
                   idle_agent_ids, attr_idx, decision, step_result, pass_countdown, parks, obj>>

NextSchedule ==
    Validate \/ SampleHour \/ EnforceTotal \/ CorrectDown \/ CorrectUp \/ AssertTotal

SpecSchedule == InitSchedule /\ [][NextSchedule]_vars

-----------------------------------------------------------------------------
(* Two parks built from one configuration and one random_seed, each        *)
(* stepped minute by minute.  The parks have no attraction and the         *)
(* activities of ActivityOrder, so that every decision is "leaving" or a   *)
(* visit to an activity.  A draw of a generator seeded from random_seed is *)
(* one value per seed key, the same in both parks; a draw of the global    *)
(* numpy generator, which nothing seeds, is free in each park.             *)

SeedMinutes == 3

\* random_seed: the default of Park.__init__ and another value
Seeds == {0, 1}

\* schedules of SeedMinutes minutes that bring in every agent during the
\* first two minutes
SeedSchedules ==
    {s \in [0..(SeedMinutes - 1) -> 0..NumAgents] :
        /\ s[0] + s[1] = NumAgents
        /\ \A m \in 2..(SeedMinutes - 1) : s[m] = 0}

\* agent_id + time, the offsets from random_seed of the keys of decide_to_leave_park
LeaveKeys == 0..(NumAgents + SeedMinutes - 2)

\* normal_coinflip[k] : default_rng(random_seed + k).normal(0, 1, 1) * 60; the
\* tables enumerated are high below some key and low from that key on
CoinTables ==
    {[k \in LeaveKeys |-> IF k < first_low THEN MinutesPerHour ELSE -MinutesPerHour] :
        first_low \in 0..(NumAgents + SeedMinutes - 1)}

\* stay_time[a] : int(max(default_rng(random_seed + a).normal(..), 1)), drawn
\* by add_to_activity when random_seed is not 0
StayTables(random_seed) ==
    IF random_seed # 0 THEN [Agents -> 1..MaxStay] ELSE {[a \in Agents |-> 1]}

\* stay_time_preference[a] : int(max(default_rng(random_seed + a).normal(..), 0))
SeedConfigs ==
    UNION {
        {[random_seed |-> random_seed, schedule |-> schedule,
          stay_time_preference |-> [a \in Agents |-> 0],
          normal_coinflip |-> normal_coinflip, stay_time |-> stay_time] :
            schedule \in SeedSchedules, normal_coinflip \in CoinTables,
            stay_time \in StayTables(random_seed)}
        : random_seed \in Seeds}

\* a park after generate_agents, generate_attractions, generate_activities
seed_park ==
    [schedule |-> cfg.schedule,
     time |-> 0,
     arrival_index |-> 0,
     agents |-> [a \in Agents |->
                   initialize_agent(CHOOSE p \in Profiles : p.age_class = "no_preference")],
     activities |-> [v \in ActivityNames |-> initialize_activity],
     history |-> [total_active_agents |-> <<>>, distributed_passes |-> 0,
                  redeemed_passes |-> 0]]

InitSeed ==
    /\ cfg \in SeedConfigs
    /\ NewPark
    /\ gen = None
    /\ obj = None
    /\ parks = <<seed_park, seed_park>>

\* decide_to_leave_park for the value of its normal draw
leave_decision(ag, t, stay_time_preference, normal_coinflip) ==
    IF t # ag.arrival_time /\ (t - ag.arrival_time) - stay_time_preference > normal_coinflip
    THEN [action |-> "leaving", location |-> "gate"]
    ELSE NoAction

\* the stay time add_to_activity draws: "if self.random_seed" is false for
\* seed 0, and the draw is then np.random.normal
drawn_stay_time(agent_id, unseeded) ==
    IF cfg.random_seed # 0 THEN cfg.stay_time[agent_id] ELSE unseeded[agent_id]

\* Park.step, lines 168-183, for a park without attractions: each idle agent
\* leaves or starts the activity select_activity_decision returns
RECURSIVE seed_decisions(_, _, _)
seed_decisions(p, idle, unseeded) ==
    IF idle = <<>> THEN p
    ELSE LET agent_id == Head(idle)
             ag == p.agents[agent_id]
             leave == leave_decision(ag, p.time, cfg.stay_time_preference[agent_id],
                                     cfg.normal_coinflip[agent_id + p.time])
             chosen == CHOOSE d \in select_activity_decision : TRUE
         IN  seed_decisions(
                 IF leave # NoAction
                 THEN [p EXCEPT !.agents[agent_id] = leave_park(@)]
                 ELSE [p EXCEPT !.agents[agent_id] = begin_activity(@, chosen.location),
                                !.activities[chosen.location] =
                                    add_to_activity(@, agent_id,
                                                    drawn_stay_time(agent_id, unseeded),
                                                    ag.expedited_return_time)],
                 Tail(idle), unseeded)

\* Park.step, lines 203-206
RECURSIVE seed_activities(_, _)
seed_activities(p, i) ==
    IF i > Len(ActivityOrder) THEN p
    ELSE LET r == activity_step(p.activities[ActivityOrder[i]])
         IN  seed_activities([p EXCEPT !.activities[ActivityOrder[i]] = r.state,
                                       !.agents = route_activity_exits(@, r.exiting_agents)],
                             i + 1)

\* Park.step on one park; history.total_active_agents keeps one count per minute
park_step(p, unseeded) ==
    LET total_arrivals == p.schedule[p.time]
        arrived == [a \in Agents |->
                      IF a >= p.arrival_index /\ a < p.arrival_index + total_arrivals
                      THEN arrive_at_park(p.agents[a], p.time) ELSE p.agents[a]]
        decided == seed_decisions([p EXCEPT !.agents = arrived,
                                            !.arrival_index = @ + total_arrivals],
                                  get_idle_agent_ids(arrived), unseeded)
        stepped == seed_activities(decided, 1)
    IN  [stepped EXCEPT
            !.agents = [a \in Agents |-> agent_pass_time(stepped.agents[a])],
            !.activities = [v \in ActivityNames |-> activity_pass_time(stepped.activities[v])],
            !.history.total_active_agents = Append(@, total_active_agents(stepped.agents)),
            !.time = @ + 1]

\* the agents that start an activity in the coming minute of p: those idle
\* or arriving whose leaving draw lets them stay
entering(p) ==
    {a \in Agents :
        LET arriving == a >= p.arrival_index /\ a < p.arrival_index + p.schedule[p.time]
            ag == IF arriving THEN arrive_at_park(p.agents[a], p.time) ELSE p.agents[a]
        IN  /\ ag.within_park /\ ag.current_action = "idling"
            /\ leave_decision(ag, p.time, cfg.stay_time_preference[a],
                              cfg.normal_coinflip[a + p.time]) = NoAction}

\* both parks are stepped by one minute
StepParks ==
    /\ parks[1].time < SeedMinutes
    /\ \E unseeded1 \in [entering(parks[1]) -> 1..MaxStay],
          unseeded2 \in [entering(parks[2]) -> 1..MaxStay] :
          parks' = <<park_step(parks[1], unseeded1), park_step(parks[2], unseeded2)>>
    /\ UNCHANGED <<cfg, time, arrival_index, agents, attractions, activities, history, pc,
                   idle_agent_ids, attr_idx, decision, step_result, pass_countdown, gen, obj>>

NextSeed == StepParks

SpecSeed == InitSeed /\ [][NextSeed]_vars

-----------------------------------------------------------------------------
(* One Attraction object and the calls made on it.  The park calls step    *)
(* and then pass_time in every minute, so pass_time follows a step.        *)

MaxQueueLen == 25
MaxExpQueueLen == 2
UnitMinutes == 2

\* attraction_characteristics of the object (run_time, hourly_throughput, ...)
UnitAttractions ==
    { Characteristics(10, 60, 1, TRUE, TRUE, FALSE, 0, 1),   \* capacity 10
      Characteristics(2, 45, 1, TRUE, TRUE, FALSE, 0, 1),    \* capacity 1.5
      Characteristics(3, 40, 1, TRUE, TRUE, TRUE, 1, 2),     \* capacity 2, one expedited seat
      Characteristics(1, 60, 1, TRUE, TRUE, TRUE, 1, 2) }    \* capacity 1, no expedited seat

\* agents that join the standby queue are numbered from 0, agents that join
\* the expedited queue from ExpIdBase
ExpIdBase == 1000

NoCall == [name |-> None, result |-> 0]

InitAttraction ==
    /\ cfg = None
    /\ NewPark
    /\ gen = None
    /\ parks = None
    /\ obj \in { [c |-> c, s |-> initialize_attraction, t |-> 0, park_close |-> 2 * MinutesPerHour,
                  stepped |-> FALSE, queued |-> 0, exp_queued |-> 0, call |-> NoCall]
                 : c \in UnitAttractions }

UnitLive == obj.call.name # "hung"

UnchangedPark ==
    UNCHANGED <<cfg, time, arrival_index, agents, attractions, activities, history, pc,
                idle_agent_ids, attr_idx, decision, step_result, pass_countdown, gen, parks>>

CallAddToQueue ==
    /\ UnitLive
    /\ Len(obj.s.queue) < MaxQueueLen
    /\ obj' = [obj EXCEPT !.s = add_to_queue(obj.s, obj.queued),
                          !.queued = @ + 1,
                          !.call = [name |-> "add_to_queue", result |-> 0]]
    /\ UnchangedPark

CallAddToExpQueue ==
    /\ UnitLive
    /\ obj.c.expedited_queue
    /\ Len(obj.s.exp_queue) < MaxExpQueueLen
    /\ LET s1 == add_to_exp_queue(obj.s, ExpIdBase + obj.exp_queued)
           expedited_wait_time == get_exp_wait_time(obj.c, s1)
       IN  obj' = [obj EXCEPT !.s = s1,
                              !.exp_queued = @ + 1,
                              !.call = IF expedited_wait_time = Diverges
                                       THEN [name |-> "hung", result |-> 0]
                                       ELSE [name |-> "add_to_exp_queue",
                                             result |-> expedited_wait_time]]
    /\ UnchangedPark

CallStep ==
    /\ UnitLive
    /\ ~obj.stepped
    /\ obj' = [obj EXCEPT !.s = attraction_step(obj.c, obj.s, obj.t, obj.park_close).state,
                          !.stepped = TRUE,
                          !.call = [name |-> "step", result |-> 0]]
    /\ UnchangedPark

CallPassTime ==
    /\ UnitLive
    /\ obj.stepped
    /\ obj.t < UnitMinutes
    /\ obj' = [obj EXCEPT !.s = attraction_pass_time(obj.s),
                          !.stepped = FALSE,
                          !.t = @ + 1,
                          !.call = [name |-> "pass_time", result |-> 0]]
    /\ UnchangedPark

\* get_wait_time assigns only its local variables
CallGetWaitTime ==
    /\ UnitLive
    /\ obj' = [obj EXCEPT !.s = after_get_wait_time(obj.c, obj.s),
                          !.call = [name |-> "get_wait_time",
                                    result |-> get_wait_time(obj.c, obj.s)]]
    /\ UnchangedPark

CallGetExpWaitTime ==
    /\ UnitLive
    /\ LET result == get_exp_wait_time(obj.c, obj.s)
       IN  obj' = [obj EXCEPT !.s = after_get_exp_wait_time(obj.c, obj.s),
                              !.call = IF result = Diverges
                                       THEN [name |-> "hung", result |-> 0]
                                       ELSE [name |-> "get_exp_wait_time", result |-> result]]
    /\ UnchangedPark

NextAttraction ==
    \/ CallAddToQueue \/ CallAddToExpQueue \/ CallStep \/ CallPassTime
    \/ CallGetWaitTime \/ CallGetExpWaitTime

SpecAttraction == InitAttraction /\ [][NextAttraction]_vars

-----------------------------------------------------------------------------
(* One Activity object and the calls made on it.  An agent is added only   *)
(* while it is idle, so never while it is a visitor; the park calls step   *)
(* and then pass_time in every minute.                                     *)

MaxVisitors == 3

VisitorIds == 0..(MaxVisitors - 1)

\* expedited_return_time lists handed to add_to_activity
ReturnTimeLists == {<<>>, <<1>>, <<2, 0>>}

NotDue == -1

\* obj.remaining is the history of the calls: agent id -> minutes the agent
\* still has in the activity; obj.due is the minute of admission plus the stay
\* the visitor was admitted with, NotDue for an agent that is not a visitor
InitActivity ==
    /\ cfg = None
    /\ NewPark
    /\ gen = None
    /\ parks = None
    /\ obj = [v |-> initialize_activity, remaining |-> [a \in VisitorIds |-> 0],
              due |-> [a \in VisitorIds |-> NotDue],
              t |-> 0, stepped |-> FALSE,
              call |-> [name |-> None, agent_id |-> -1, result |-> <<>>]]

CallAddToActivity ==
    /\ \E agent_id \in VisitorIds, drawn \in 1..MaxStay, expedited_return_time \in ReturnTimeLists :
          /\ agent_id \notin Range(obj.v.visitors)
          /\ obj' = [obj EXCEPT !.v = add_to_activity(obj.v, agent_id, drawn, expedited_return_time),
                                !.remaining[agent_id] = capped_stay(drawn, expedited_return_time),
                                !.due[agent_id] =
                                    obj.t + add_to_activity(obj.v, agent_id, drawn, expedited_return_time)
                                               .visitor_time_remaining[Len(obj.v.visitors) + 1],
                                !.call = [name |-> "add_to_activity", agent_id |-> agent_id,
                                          result |-> <<>>]]
    /\ UnchangedPark

\* list.index raises ValueError for an agent that is not a visitor
CallForceExit ==
    /\ \E agent_id \in Range(obj.v.visitors) :
          obj' = [obj EXCEPT !.v = force_exit(obj.v, agent_id),
                             !.due[agent_id] = NotDue,
                             !.call = [name |-> "force_exit", agent_id |-> agent_id,
                                       result |-> <<IndexOf(obj.v.visitors, agent_id)>>]]
    /\ UnchangedPark

CallActivityStep ==
    /\ ~obj.stepped
    /\ obj' = [obj EXCEPT !.v = activity_step(obj.v).state,
                          !.due = [a \in VisitorIds |->
                                      IF a \in Range(activity_step(obj.v).exiting_agents)
                                      THEN NotDue ELSE @[a]],
                          !.stepped = TRUE,
                          !.call = [name |-> "step", agent_id |-> -1,
                                    result |-> activity_step(obj.v).exiting_agents]]
    /\ UnchangedPark

CallActivityPassTime ==
    /\ obj.stepped
    /\ obj.t < UnitMinutes
    /\ obj' = [obj EXCEPT !.v = activity_pass_time(obj.v),
                          !.remaining = [a \in VisitorIds |->
                                            IF a \in Range(obj.v.visitors) THEN @[a] - 1 ELSE @[a]],
                          !.stepped = FALSE,
                          !.t = @ + 1,
                          !.call = [name |-> "pass_time", agent_id |-> -1, result |-> <<>>]]
    /\ UnchangedPark

NextActivity ==
    CallAddToActivity \/ CallForceExit \/ CallActivityStep \/ CallActivityPassTime

SpecActivity == InitActivity /\ [][NextActivity]_vars

-----------------------------------------------------------------------------
(* Agent.select_age_class, called once for each agent of one archetype.    *)
(* The weights are whole numbers of one unit, so every floor is a whole    *)
(* number and a draw in [k, k + 1) compares with every floor as k does:    *)
(* the draws are the whole numbers below the sum.  random.uniform(0, b)    *)
(* is b * random() with random() < 1, which is below b for b > 0.          *)

MaxWeight == 2

\* percent_no_child_rides, percent_no_adult_rides, percent_no_preference of an
\* archetype, not all zero
AgeClassDistributions ==
    {d \in [1..3 -> 0..MaxWeight] : d[1] + d[2] + d[3] > 0}

InitAgeClass ==
    /\ cfg = None
    /\ NewPark
    /\ gen = None
    /\ parks = None
    /\ obj \in { [age_class_distribution |-> d, age_class |-> <<>>, rng |-> <<>>]
                 : d \in AgeClassDistributions }

\* initialize_agent of the next agent: the draw and the class it selects
SelectAgeClass ==
    /\ Len(obj.age_class) < NumAgents
    /\ None \notin Range(obj.age_class)
    /\ \E rng \in 0..(obj.age_class_distribution[1] + obj.age_class_distribution[2]
                        + obj.age_class_distribution[3] - 1) :
          obj' = [obj EXCEPT !.age_class = Append(@, select_age_class(obj.age_class_distribution, rng)),
                             !.rng = Append(@, rng)]
    /\ UnchangedPark

NextAgeClass == SelectAgeClass

SpecAgeClass == InitAgeClass /\ [][NextAgeClass]_vars

-----------------------------------------------------------------------------
(* The engine for agents of every age class, with and without the          *)
(* expedited ability, in a park with a child-only and an adult-only        *)
(* attraction and a limit of one pass per agent                            *)

ProfileMinutes == 3

\* a child-only attraction of capacity 2 and an adult-only attraction of
\* capacity 2, each with one expedited seat
AgeAttractionLists ==
    { [n \in AttractionNames |->
          IF n = "A1" THEN Characteristics(2, 60, 1, TRUE, FALSE, TRUE, 1, 2)
                      ELSE Characteristics(3, 40, 2, FALSE, TRUE, TRUE, 1, 2)] }

AgeProfiles ==
    [expedited_pass_ability : BOOLEAN,
     age_class : Range(AgeClassOrder),
     allow_repeats : {TRUE},
     wait_threshold : {90}]

ProfileConfigs ==
    [attraction_list : AgeAttractionLists,
     park_close : {2 * MinutesPerHour},
     exp_wait_threshold : {0},
     exp_limit : {1},
     profile : [Agents -> AgeProfiles],
     arrival_minutes : {{1}},
     last_minute : {ProfileMinutes},
     stay_draws : {{1}}]

InitProfiles == cfg \in ProfileConfigs /\ InitPark

SpecProfiles == InitProfiles /\ [][Next]_vars

-----------------------------------------------------------------------------
(* Construction of a park: generate_arrival_schedule followed by           *)
(* generate_agents                                                         *)

\* a table of 25 hourly buckets that sums to 100
LongTable == [hour \in 1..25 |-> 4]

ConstructTables == HourTables \cup {LongTable}

\* behavior_archetype_distribution: the weights in the order of the dictionary
ArchetypeDistributions == {<<100>>, <<50, 50>>, <<50, 30>>, <<100, 50>>}

\* variant: the agents are created before the distribution is checked
generate_agents_checking_last(schedule, behavior_archetype_distribution, profile) ==
    [agents |-> [agent_id \in 0..(schedule_total(schedule) - 1) |-> initialize_agent(profile)],
     error |-> IF SeqSum(behavior_archetype_distribution) # 100 THEN "AssertionError" ELSE None]

\* Park.generate_agents: Park.agents after the call and the error raised;
\* every agent gets the drawn profile
generate_agents(schedule, behavior_archetype_distribution, profile) ==
    IF SeqSum(behavior_archetype_distribution) # 100
    THEN [agents |-> <<>>, error |-> "AssertionError"]
    ELSE [agents |-> [agent_id \in 0..(schedule_total(schedule) - 1) |-> initialize_agent(profile)],
          error |-> None]

InitConstruct ==
    /\ cfg = None
    /\ NewPark
    /\ parks = None
    /\ obj = [behavior_archetype_distribution |-> <<>>]
    /\ \E arrival_seed \in ConstructTables, total_daily_agents \in 0..MaxDailyAgents,
          perfect_arrivals \in BOOLEAN :
          gen = new_frame(arrival_seed, total_daily_agents, perfect_arrivals)

\* the call of generate_agents that follows a generate_arrival_schedule that returned
GenerateAgents ==
    /\ gen.pc = "done"
    /\ pc = None
    /\ \E behavior_archetype_distribution \in ArchetypeDistributions, profile \in Profiles :
          LET made == generate_agents(gen.schedule, behavior_archetype_distribution, profile)
          IN  /\ agents' = made.agents
              /\ pc' = IF made.error = None THEN "generated" ELSE "raised"
              /\ obj' = [behavior_archetype_distribution |-> behavior_archetype_distribution]
    /\ UNCHANGED <<cfg, time, arrival_index, attractions, activities, history,
                   idle_agent_ids, attr_idx, decision, step_result, pass_countdown, gen, parks>>

NextConstruct ==
    \/ Validate \/ SampleHour \/ EnforceTotal \/ CorrectDown \/ CorrectUp \/ AssertTotal
    \/ GenerateAgents

SpecConstruct == InitConstruct /\ [][NextConstruct]_vars

-----------------------------------------------------------------------------
(* The engine for agents that do not repeat attractions, stepped for ten   *)
(* minutes                                                                 *)

RepeatMinutes == 10

\* an attraction of capacity 2 with one expedited seat and a three-minute
\* cycle, and a one-minute attraction of capacity 1 without expedited queue
RepeatAttractionLists ==
    { [n \in AttractionNames |->
          IF n = "A1" THEN Characteristics(3, 40, 1, TRUE, TRUE, TRUE, 1, 2)
                      ELSE Characteristics(1, 60, 2, TRUE, TRUE, FALSE, 0, 1)] }

RepeatProfiles ==
    { [expedited_pass_ability |-> TRUE, age_class |-> "no_adult_rides",
       allow_repeats |-> FALSE, wait_threshold |-> 90] }

RepeatConfigs ==
    [attraction_list : RepeatAttractionLists,
     park_close : {2 * MinutesPerHour},
     exp_wait_threshold : {0},
     exp_limit : {1},
     profile : [Agents -> RepeatProfiles],
     arrival_minutes : {{1}},
     last_minute : {RepeatMinutes},
     stay_draws : {{1}}]

InitRepeat == cfg \in RepeatConfigs /\ InitPark

SpecRepeat == InitRepeat /\ [][Next]_vars

-----------------------------------------------------------------------------
(* One attraction served over several cycles: agents join both queues,     *)
(* return passes, and the attraction is stepped once a minute               *)

MaxWaiting == 4
MaxExpWaiting == 2
MaxReturns == 1
LoadMinutes == 3

LoadAttractions ==
    { Characteristics(1, 120, 1, TRUE, TRUE, TRUE, 1, 2),    \* capacity 2, one expedited seat
      Characteristics(2, 90, 1, TRUE, TRUE, TRUE, 2, 3),     \* capacity 3, two expedited seats
      Characteristics(3, 40, 1, TRUE, TRUE, FALSE, 0, 1),    \* capacity 2, no expedited queue
      Characteristics(2, 45, 1, TRUE, TRUE, TRUE, 1, 1) }    \* capacity 1.5, one expedited seat

\* the object, the minute, the agents that joined each queue so far and the
\* lists returned by the last step
InitLoad ==
    /\ cfg = None
    /\ NewPark
    /\ gen = None
    /\ parks = None
    /\ obj \in { [c |-> c, s |-> initialize_attraction, t |-> 0, park_close |-> 2 * MinutesPerHour,
                  stepped |-> FALSE, queued |-> 0, exp_queued |-> 0, returned |-> 0,
                  call |-> NoStep]
                 : c \in LoadAttractions }

LoadAddToQueue ==
    /\ Len(obj.s.queue) < MaxWaiting
    /\ obj' = [obj EXCEPT !.s = add_to_queue(obj.s, obj.queued),
                          !.queued = @ + 1,
                          !.call = [NoStep EXCEPT !.name = "add_to_queue"]]
    /\ UnchangedPark

\* get pass: remove_pass, then add_to_exp_queue when its estimate returns
LoadAddToExpQueue ==
    /\ obj.c.expedited_queue
    /\ Len(obj.s.exp_queue) < MaxExpWaiting
    /\ LET s1 == add_to_exp_queue(remove_pass(obj.c, obj.s), ExpIdBase + obj.exp_queued)
       IN  /\ get_exp_wait_time(obj.c, s1) # Diverges
           /\ obj' = [obj EXCEPT !.s = s1, !.exp_queued = @ + 1,
                                  !.call = [NoStep EXCEPT !.name = "add_to_exp_queue"]]
    /\ UnchangedPark

LoadReturnPass ==
    /\ obj.returned < MaxReturns
    /\ \E agent_id \in Range(obj.s.exp_queue) :
          obj' = [obj EXCEPT !.s = return_pass(obj.c, obj.s, agent_id),
                             !.returned = @ + 1,
                             !.call = [NoStep EXCEPT !.name = "return_pass"]]
    /\ UnchangedPark

LoadStep ==
    /\ ~obj.stepped
    /\ LET r == attraction_step(obj.c, obj.s, obj.t, obj.park_close)
       IN  obj' = [obj EXCEPT !.s = r.state,
                              !.stepped = TRUE,
                              !.call = [name |-> "step",
                                        exiting_agents |-> r.exiting_agents,
                                        loaded_agents |-> r.loaded_agents,
                                        expedited_agents_to_load |-> r.expedited_agents_to_load,
                                        loading |-> r.loading]]
    /\ UnchangedPark

LoadPassTime ==
    /\ obj.stepped
    /\ obj.t < LoadMinutes
    /\ obj' = [obj EXCEPT !.s = attraction_pass_time(obj.s),
                          !.stepped = FALSE,
                          !.t = @ + 1,
                          !.call = [NoStep EXCEPT !.name = "pass_time"]]
    /\ UnchangedPark

NextLoad ==
    LoadAddToQueue \/ LoadAddToExpQueue \/ LoadReturnPass \/ LoadStep \/ LoadPassTime

SpecLoad == InitLoad /\ [][NextLoad]_vars

-----------------------------------------------------------------------------
(* add_to_activity for an agent that holds pass deadlines                   *)

MaxDrawn == 3
MaxDeadline == 3
MinDeadline == -1

\* agent.state["expedited_return_time"]: no pass, one pass or two, each
\* countdown ahead, due (0) or overdue (negative)
DeadlineLists ==
    UNION {[1..n -> MinDeadline..MaxDeadline] : n \in 0..2}

InitStay ==
    /\ cfg = None
    /\ NewPark
    /\ gen = None
    /\ parks = None
    /\ \E drawn \in 1..MaxDrawn, expedited_return_time \in DeadlineLists :
          obj = [v |-> initialize_activity, drawn |-> drawn,
                 expedited_return_time |-> expedited_return_time, admitted |-> FALSE]

AddToActivity ==
    /\ ~obj.admitted
    /\ obj' = [obj EXCEPT !.v = add_to_activity(obj.v, 0, obj.drawn, obj.expedited_return_time),
                          !.admitted = TRUE]
    /\ UnchangedPark

NextStay == AddToActivity

SpecStay == InitStay /\ [][NextStay]_vars

-----------------------------------------------------------------------------
(* The engine for agents with wait_threshold 0 and an attraction whose     *)
(* cycle is longer than that threshold allows                               *)

WaitMinutes == 3

WaitAttractionLists ==
    { \* a one-minute attraction of capacity 1 without expedited queue, and an
      \* eight-minute attraction of capacity 2 with one expedited seat
      [n \in AttractionNames |->
          IF n = "A1" THEN Characteristics(1, 60, 2, TRUE, TRUE, FALSE, 0, 1)
                      ELSE Characteristics(8, 15, 1, TRUE, TRUE, TRUE, 1, 2)],
      \* the same with a three-minute cycle for the second attraction
      [n \in AttractionNames |->
          IF n = "A1" THEN Characteristics(1, 60, 2, TRUE, TRUE, FALSE, 0, 1)
                      ELSE Characteristics(3, 40, 1, TRUE, TRUE, TRUE, 1, 2)] }

WaitProfiles ==
    { [expedited_pass_ability |-> ability, age_class |-> "no_adult_rides",
       allow_repeats |-> TRUE, wait_threshold |-> 0] : ability \in BOOLEAN }

WaitConfigs ==
    [attraction_list : WaitAttractionLists,
     park_close : {2 * MinutesPerHour},
     exp_wait_threshold : {0},
     exp_limit : {1},
     profile : [Agents -> WaitProfiles],
     arrival_minutes : {{0, 1}},
     last_minute : {WaitMinutes},
     stay_draws : {{1}}]

InitWait == cfg \in WaitConfigs /\ InitPark

SpecWait == InitWait /\ [][Next]_vars

-----------------------------------------------------------------------------
(* Agent.select_attraction_decision, one pass of its while loop at a time, *)
(* and the caller's fall-through in make_attraction_activity_decision.     *)
(* The popularities are whole numbers, so a draw in (k - 1, k] selects as  *)
(* k does; the draw 0 is random.uniform returning exactly 0.0, that is     *)
(* random.random() returning 0.0.                                          *)

MaxSelectQueue == 2

SelectOrder == <<"A1", "A2", "A3">>
SelectNames == Range(SelectOrder)

\* attractions_dict: capacity 1 without expedited queue, capacity 2 with one
\* expedited seat, capacity 1 whose expedited share rounds to no seat
SelectAttractions ==
    [n \in SelectNames |->
        CASE n = "A1" -> Characteristics(1, 60, 1, TRUE, TRUE, FALSE, 0, 1)
          [] n = "A2" -> Characteristics(8, 15, 2, TRUE, TRUE, TRUE, 1, 2)
          [] OTHER    -> Characteristics(3, 20, 1, TRUE, TRUE, TRUE, 1, 2)]

\* states of an attraction: an empty or a waiting standby queue, a cycle that
\* is over or has just begun, and for an expedited queue no or one pass left
SelectStates(c) ==
    { [initialize_attraction EXCEPT
          !.queue = [i \in 1..queue_len |-> ExpIdBase + i],
          !.run_time_remaining = run_time_remaining,
          !.exp_queue_passes = exp_queue_passes]
      : queue_len \in {0, MaxSelectQueue},
        run_time_remaining \in {0, c.run_time},
        exp_queue_passes \in (IF c.expedited_queue THEN {0, 1} ELSE {0}) }

\* the fields of Agent.state and Agent.behavior the selection reads: no pass,
\* or a pass for the third attraction that is overdue or far off
SelectAgents ==
    { [expedited_pass_ability |-> ability, wait_threshold |-> 0,
       expedited_pass |-> held[1], expedited_return_time |-> held[2]]
      : ability \in BOOLEAN,
        held \in {<<(<<>>), (<<>>)>>, <<(<<"A3">>), (<<0>>)>>, <<(<<"A3">>), (<<20>>)>>} }

SelectThresholds == [exp_wait_threshold |-> 0, exp_limit |-> 1]

Unbound == "unbound"

\* the call select_attraction_decision(valid_attractions, attractions_dict):
\* valid_attractions holds no attraction the agent has a pass for
InitSelect ==
    /\ cfg = None
    /\ NewPark
    /\ gen = None
    /\ parks = None
    /\ \E attrs \in [SelectNames -> UNION {SelectStates(SelectAttractions[n]) : n \in SelectNames}],
          ag \in SelectAgents,
          valid \in SUBSET SelectNames :
          /\ \A n \in SelectNames : attrs[n] \in SelectStates(SelectAttractions[n])
          /\ valid \cap Range(ag.expedited_pass) = {}
          /\ obj = [attractions |-> attrs, agent |-> ag,
                    candidates |-> valid,
                    valid_attractions |-> valid,
                    attraction_wait_times |-> [n \in SelectNames |-> Unset],
                    action |-> None, location |-> None,
                    desired_attraction |-> Unbound,
                    step_rng |-> 0, rng |-> Unset,
                    decision |-> NoAction, pc |-> "called"]

\* lines 260-267: the wait of every attraction is read once, before the loop
ReadWaitTimes ==
    /\ obj.pc = "called"
    /\ obj' = [obj EXCEPT
          !.attraction_wait_times =
              [n \in SelectNames |-> get_wait_time(SelectAttractions[n], obj.attractions[n])],
          !.pc = "loop"]
    /\ UnchangedPark

\* sum(attraction_popularity_distribution.values())
popularity_sum(valid) ==
    LET RECURSIVE upto(_)
        upto(i) == IF i = 0 THEN 0
                   ELSE upto(i - 1) + (IF SelectOrder[i] \in valid
                                       THEN SelectAttractions[SelectOrder[i]].popularity ELSE 0)
    IN  upto(Len(SelectOrder))

\* lines 277-281: the attraction whose bucket (floor, ceiling] holds rng, in
\* the order of attractions_dict; a draw no bucket holds leaves the name as
\* it was
RECURSIVE bucket_from(_, _, _, _, _)
bucket_from(valid, rng, i, floor, desired_attraction) ==
    IF i > Len(SelectOrder) THEN desired_attraction
    ELSE IF SelectOrder[i] \notin valid
         THEN bucket_from(valid, rng, i + 1, floor, desired_attraction)
         ELSE LET ceiling == floor + SelectAttractions[SelectOrder[i]].popularity
              IN  bucket_from(valid, rng, i + 1, ceiling,
                              IF floor < rng /\ rng <= ceiling
                              THEN SelectOrder[i] ELSE desired_attraction)

\* lines 269-303: one pass of the while loop for a draw rng.  Reading
\* desired_attraction while it is unbound raises UnboundLocalError;
\* valid_attractions.remove of a name the list does not hold raises ValueError.
DrawAttraction ==
    /\ obj.pc = "loop"
    /\ obj.valid_attractions # {}
    /\ obj.action = None
    /\ \E rng \in 0..popularity_sum(obj.valid_attractions) :
          LET desired_attraction ==
                  bucket_from(obj.valid_attractions, rng, 1, 0, obj.desired_attraction)
              drawn == [obj EXCEPT !.step_rng = @ + 1, !.rng = rng,
                                   !.desired_attraction = desired_attraction]
              wait == obj.attraction_wait_times[desired_attraction]
              c == SelectAttractions[desired_attraction]
              remove == IF desired_attraction \in obj.valid_attractions
                        THEN [drawn EXCEPT !.valid_attractions = @ \ {desired_attraction}]
                        ELSE [drawn EXCEPT !.pc = "raised"]
          IN  obj' =
                IF desired_attraction = Unbound
                THEN [drawn EXCEPT !.pc = "raised"]
                ELSE IF /\ wait > SelectThresholds.exp_wait_threshold
                        /\ obj.agent.expedited_pass_ability
                        /\ Len(obj.agent.expedited_pass) < SelectThresholds.exp_limit
                        /\ c.expedited_queue
                        /\ obj.attractions[desired_attraction].exp_queue_passes > 0
                THEN [drawn EXCEPT !.action = "get pass", !.location = desired_attraction]
                ELSE IF wait > obj.agent.wait_threshold + c.popularity * 6
                THEN remove
                ELSE IF \E i \in 1..Len(obj.agent.expedited_return_time) :
                            obj.agent.expedited_return_time[i] < wait + c.run_time
                THEN remove
                ELSE [drawn EXCEPT !.action = "traveling", !.location = desired_attraction]
    /\ UnchangedPark

\* line 305 and make_attraction_activity_decision, lines 181-186: the pair is
\* returned, and without an action the caller selects an activity
ReturnDecision ==
    /\ obj.pc = "loop"
    /\ obj.valid_attractions = {} \/ obj.action # None
    /\ \E selected \in (IF obj.action = None
                        THEN select_activity_decision
                        ELSE {[action |-> obj.action, location |-> obj.location]}) :
          obj' = [obj EXCEPT !.decision = selected, !.pc = "returned"]
    /\ UnchangedPark

NextSelect == ReadWaitTimes \/ DrawAttraction \/ ReturnDecision

SpecSelect == InitSelect /\ [][NextSelect]_vars

-----------------------------------------------------------------------------
(* One Attraction without expedited queue as Park.step drives it: agents   *)
(* join the standby queue before the step of a minute, each one after      *)
(* reading get_wait_time.                                                  *)

EstimateMinutes == 6
MaxStandby == 4
MaxJoined == 5

EstimateAttractions ==
    { Characteristics(3, 40, 1, TRUE, TRUE, FALSE, 0, 1),    \* capacity 2, three-minute cycle
      Characteristics(2, 30, 1, TRUE, TRUE, FALSE, 0, 1),    \* capacity 1, two-minute cycle
      Characteristics(1, 120, 1, TRUE, TRUE, FALSE, 0, 1) }  \* capacity 2, one-minute cycle

\* the object, the minute, and for the agent of id i at place i + 1 the
\* estimate it read, the minute it joined and the minute it was loaded
InitEstimate ==
    /\ cfg = None
    /\ NewPark
    /\ gen = None
    /\ parks = None
    /\ obj \in { [c |-> c, s |-> initialize_attraction, t |-> 0, park_close |-> 2 * MinutesPerHour,
                  stepped |-> FALSE, wait |-> <<>>, joined |-> <<>>,
                  loaded |-> [i \in 1..MaxJoined |-> NotDue]]
                 : c \in EstimateAttractions }

\* select_attraction_decision reads get_wait_time, update_park_state calls
\* add_to_queue for the agent that decided to travel to the attraction
EstimateJoin ==
    /\ ~obj.stepped
    /\ Len(obj.s.queue) < MaxStandby
    /\ Len(obj.joined) < MaxJoined
    /\ obj' = [obj EXCEPT !.s = add_to_queue(obj.s, Len(obj.joined)),
                          !.wait = Append(@, get_wait_time(obj.c, obj.s)),
                          !.joined = Append(@, obj.t)]
    /\ UnchangedPark

\* Park.step, lines 185-186: the step of the minute
EstimateStep ==
    /\ ~obj.stepped
    /\ LET r == attraction_step(obj.c, obj.s, obj.t, obj.park_close)
       IN  obj' = [obj EXCEPT !.s = r.state,
                              !.stepped = TRUE,
                              !.loaded = [i \in 1..MaxJoined |->
                                             IF (i - 1) \in Range(r.loaded_agents)
                                             THEN obj.t ELSE @[i]]]
    /\ UnchangedPark

\* Park.step, lines 211-212 and 225: pass_time and the clock
EstimatePassTime ==
    /\ obj.stepped
    /\ obj.t < EstimateMinutes
    /\ obj' = [obj EXCEPT !.s = attraction_pass_time(obj.s),
                          !.stepped = FALSE,
                          !.t = @ + 1]
    /\ UnchangedPark

NextEstimate == EstimateJoin \/ EstimateStep \/ EstimatePassTime

SpecEstimate == InitEstimate /\ [][NextEstimate]_vars

-----------------------------------------------------------------------------
(* One Attraction with an expedited queue, stepped minute after minute     *)
(* without end while agents join its queues, take and return passes.  The  *)
(* minute is counted up to park_close: Attraction.step reads the time only *)
(* in the test time < park_close, which stays false from then on.          *)

MaxServed == 2
MaxServedPasses == 2
MaxServeReturns == 1

ServeAttractions ==
    { Characteristics(2, 30, 1, TRUE, TRUE, TRUE, 1, 1),     \* capacity 1, its seat expedited
      Characteristics(3, 40, 1, TRUE, TRUE, TRUE, 1, 2),     \* capacity 2, one expedited seat
      Characteristics(2, 60, 1, TRUE, TRUE, TRUE, 1, 4) }    \* capacity 2, no expedited seat

\* the object, the minute, the agents that joined each queue so far and the
\* standby agents that a loading step left at the head of the queue
InitServe ==
    /\ cfg = None
    /\ NewPark
    /\ gen = None
    /\ parks = None
    /\ obj \in { [c |-> c, s |-> initialize_attraction, t |-> 0, park_close |-> MinutesPerHour,
                  stepped |-> FALSE, queued |-> 0, exp_queued |-> 0, returned |-> 0,
                  bypassed |-> {}]
                 : c \in ServeAttractions }

ServeAddToQueue ==
    /\ obj.queued < MaxServed
    /\ obj' = [obj EXCEPT !.s = add_to_queue(obj.s, obj.queued), !.queued = @ + 1]
    /\ UnchangedPark

\* get pass, decided while exp_queue_passes > 0: remove_pass, then
\* add_to_exp_queue when its estimate returns
ServeGetPass ==
    /\ obj.s.exp_queue_passes > 0
    /\ obj.exp_queued < MaxServedPasses
    /\ LET s1 == add_to_exp_queue(remove_pass(obj.c, obj.s), ExpIdBase + obj.exp_queued)
       IN  /\ get_exp_wait_time(obj.c, s1) # Diverges
           /\ obj' = [obj EXCEPT !.s = s1, !.exp_queued = @ + 1]
    /\ UnchangedPark

\* a pass holder leaves the park
ServeReturnPass ==
    /\ obj.returned < MaxServeReturns
    /\ \E agent_id \in Range(obj.s.exp_queue) :
          obj' = [obj EXCEPT !.s = return_pass(obj.c, obj.s, agent_id), !.returned = @ + 1]
    /\ UnchangedPark

ServeStep ==
    /\ ~obj.stepped
    /\ LET r == attraction_step(obj.c, obj.s, obj.t, obj.park_close)
       IN  obj' = [obj EXCEPT !.s = r.state,
                              !.stepped = TRUE,
                              !.bypassed = IF r.loading /\ r.state.queue # <<>>
                                           THEN @ \cup {Head(r.state.queue)} ELSE @]
    /\ UnchangedPark

ServePassTime ==
    /\ obj.stepped
    /\ obj' = [obj EXCEPT !.s = attraction_pass_time(obj.s),
                          !.stepped = FALSE,
                          !.t = IF @ < obj.park_close THEN @ + 1 ELSE @]
    /\ UnchangedPark

NextServe ==
    ServeAddToQueue \/ ServeGetPass \/ ServeReturnPass \/ ServeStep \/ ServePassTime

\* Park.step runs the step and pass_time of every attraction in each minute
SpecServe ==
    InitServe /\ [][NextServe]_vars /\ WF_vars(ServeStep) /\ WF_vars(ServePassTime)

-----------------------------------------------------------------------------
(* The engine for two agents that repeat attractions and may hold one pass, *)
(* stepped for eleven minutes: A1 has capacity 1 and gives its seat to the  *)
(* expedited queue, A2 has capacity 2 and an expedited share that rounds to *)
(* no seat.                                                                 *)

PassMinutes == 11

PassConfigs ==
    [attraction_list :
         { [n \in AttractionNames |->
               IF n = "A1" THEN Characteristics(3, 20, 1, TRUE, TRUE, TRUE, 1, 1)
                           ELSE Characteristics(2, 60, 2, TRUE, TRUE, TRUE, 1, 4)] },
     park_close : {2 * MinutesPerHour},
     exp_wait_threshold : {1},
     exp_limit : {1},
     profile : [Agents -> { [expedited_pass_ability |-> TRUE, age_class |-> "no_adult_rides",
                             allow_repeats |-> TRUE, wait_threshold |-> 90] }],
     arrival_minutes : {{1, 4}},
     last_minute : {PassMinutes},
     stay_draws : {{1}}]

InitPass == cfg \in PassConfigs /\ InitPark

SpecPass == InitPass /\ [][Next]_vars

-----------------------------------------------------------------------------
(* Properties                                                              *)

\* the call in progress neither hung nor raised
Running == pc \notin {"hung", "raised"}

\* attraction n has been stepped in the current minute
Stepped(n) ==
    \/ pc \in {"activities", "pass_time"}
    \/ pc = "attractions" /\ \E i \in 1..(attr_idx - 1) : AttractionOrder[i] = n

\* C1: the occupants of an attraction never outnumber its capacity
\* hourly_throughput * run_time / 60.
C1_OccupantsWithinCapacity ==
    \A n \in AttractionNames :
        MinutesPerHour * Len(attractions[n].agents_in_attraction)
            <= capacity60(attraction_characteristics[n])

\* a cycle left with every whole seat taken while somebody was still waiting
C1_Witness ==
    \E n \in AttractionNames :
        /\ step_result.name = n /\ step_result.loading
        /\ Len(attractions[n].agents_in_attraction) >= 1
        /\ MinutesPerHour * (Len(attractions[n].agents_in_attraction) + 1)
               > capacity60(attraction_characteristics[n])
        /\ attractions[n].queue # <<>>

\* C2: one step of an attraction takes at most floor(capacity * ratio)
\* agents out of its expedited queue.
C2_ExpeditedLoadWithinSeats ==
    [][pc = "attractions" =>
          LET n == AttractionOrder[attr_idx]
          IN  Len(attractions[n].exp_queue) - Len(attractions'[n].exp_queue)
                 <= exp_seats(attraction_characteristics[n])]_vars

\* a load that filled its expedited seats, left pass holders waiting and
\* found the standby queue empty
C2_Witness ==
    /\ step_result.loading
    /\ step_result.expedited_agents_to_load # <<>>
    /\ step_result.loaded_agents = step_result.expedited_agents_to_load
    /\ pc \in {"attractions", "activities"}
    /\ attractions[step_result.name].exp_queue # <<>>
    /\ attractions[step_result.name].queue = <<>>

\* C3: a decision taken once the park has closed is "leaving".
C3_ClosedParkForcesLeaving ==
    decision.park_closed => decision.action = "leaving"

\* C4: the leaving action returns every pass the agent holds: its two lists
\* are empty afterwards, it is in no expedited queue and every attraction it
\* held a pass for has one pass less distributed.
C4_LeavingReturnsEveryPass ==
    [][(pc = "decisions" /\ decision'.action = "leaving" /\ pc' # "raised") =>
          LET a == Head(idle_agent_ids)
          IN  /\ agents'[a].expedited_pass = <<>>
              /\ agents'[a].expedited_return_time = <<>>
              /\ \A n \in AttractionNames : a \notin Range(attractions'[n].exp_queue)
              /\ \A n \in Range(agents[a].expedited_pass) :
                    attractions'[n].exp_queue_passes_distributed
                       = attractions[n].exp_queue_passes_distributed - 1]_vars

\* C5: no attraction occurs twice in an agent's held passes.
C5_NoDuplicatePass ==
    \A a \in Agents :
        \A i, j \in 1..Len(agents[a].expedited_pass) :
            agents[a].expedited_pass[i] = agents[a].expedited_pass[j] => i = j

\* an agent holds two passes, so it decided again while holding one
C5_Witness ==
    \E a \in Agents : Len(agents[a].expedited_pass) = 2

\* C6: after every completed operation the held passes and their countdowns
\* have one length and entry i of the second list is the countdown of the
\* pass at entry i.
C6_PassListsAligned ==
    Running =>
        \A a \in Agents :
            /\ Len(agents[a].expedited_pass) = Len(agents[a].expedited_return_time)
            /\ \A i \in 1..Len(agents[a].expedited_pass) :
                  /\ agents[a].expedited_pass[i] \in DOMAIN pass_countdown[a]
                  /\ i <= Len(agents[a].expedited_return_time)
                  /\ agents[a].expedited_return_time[i]
                        = pass_countdown[a][agents[a].expedited_pass[i]]

\* an agent redeemed one of its passes and still holds another one
C6_Witness ==
    \E a \in Agents :
        /\ a \in Range(step_result.expedited_agents_to_load)
        /\ Len(agents[a].expedited_pass) = 1
        /\ Len(agents[a].expedited_return_time) = 1

\* C7: two parks built from one configuration and one random_seed, the
\* seed 0 included, have after every minute the same arrival schedule, the
\* same active-agent count for every minute and the same pass totals.
C7_SameSeedSameRun ==
    /\ parks[1].schedule = parks[2].schedule
    /\ parks[1].history.total_active_agents = parks[2].history.total_active_agents
    /\ parks[1].history.distributed_passes = parks[2].history.distributed_passes
    /\ parks[1].history.redeemed_passes = parks[2].history.redeemed_passes

\* C8: with perfect_arrivals, a call of generate_arrival_schedule on a table
\* that sums to 100 ends by returning, and the buckets of the schedule then
\* sum to total_daily_agents.
C8_EnforcedTotalIsExact ==
    (/\ gen.perfect_arrivals
     /\ SeqSum(gen.arrival_seed) = 100
     /\ gen.pc \in {"done", "raised"})
    => (gen.pc = "done" /\ schedule_total(gen.schedule) = gen.total_daily_agents)

\* C9: at a minute at or after park_close the pass budget of an expedited
\* attraction is 0 once the attraction has stepped.
C9_BudgetZeroAfterClose ==
    \A n \in AttractionNames :
        (/\ attraction_characteristics[n].expedited_queue
         /\ time >= cfg.park_close
         /\ Stepped(n)
         /\ Running)
        => attractions[n].exp_queue_passes = 0

\* an attraction that has distributed passes has stepped after closing
C9_Witness ==
    \E n \in AttractionNames :
        /\ attraction_characteristics[n].expedited_queue
        /\ time >= cfg.park_close
        /\ cfg.park_close > 0
        /\ pc = "activities"
        /\ attractions[n].exp_queue_passes_distributed > 0

\* loads attraction n still performs at minutes before park_close, counted
\* at the start of a minute
LoadsBeforeClose(n) ==
    LET next_load == time + attractions[n].run_time_remaining
    IN  IF next_load >= cfg.park_close THEN 0
        ELSE ((cfg.park_close - 1 - next_load) \div attraction_characteristics[n].run_time) + 1

\* C10: before closing, the passes issued and neither redeemed nor returned
\* never outnumber the expedited seats the attraction still loads before
\* park_close.
C10_PassesFitRemainingSeats ==
    \A n \in AttractionNames :
        (/\ attraction_characteristics[n].expedited_queue
         /\ pc = "arrivals"
         /\ time < cfg.park_close)
        => Len(attractions[n].exp_queue)
              <= exp_seats(attraction_characteristics[n]) * LoadsBeforeClose(n)

\* C11: for an attraction without expedited queue, get_wait_time returns the
\* number of whole capacities in the standby queue (standby_len // capacity)
\* times run_time, plus the minutes remaining in the current cycle; with
\* run_time 10, capacity 10 and 25 agents queued that is 20 plus the remaining
\* minutes.
C11_WaitIsWholeCyclesPlusRemaining ==
    (obj.call.name = "get_wait_time" /\ ~obj.c.expedited_queue) =>
        /\ \E cycles \in 0..Len(obj.s.queue) :
              /\ cycles * capacity60(obj.c) <= MinutesPerHour * Len(obj.s.queue)
              /\ MinutesPerHour * Len(obj.s.queue) < (cycles + 1) * capacity60(obj.c)
              /\ obj.call.result = cycles * obj.c.run_time + obj.s.run_time_remaining
        /\ (obj.c.run_time = 10 /\ obj.c.hourly_throughput = 60 /\ Len(obj.s.queue) = 25)
              => obj.call.result = 20 + obj.s.run_time_remaining

C11_Witness ==
    /\ obj.call.name = "get_wait_time"
    /\ ~obj.c.expedited_queue
    /\ obj.c.run_time = 10
    /\ obj.c.hourly_throughput = 60
    /\ Len(obj.s.queue) = 25
    /\ obj.s.run_time_remaining > 0
    /\ obj.call.result = 20 + obj.s.run_time_remaining

\* C12: for every attraction with expedited_queue = false, get_exp_wait_time
\* returns 0 in every reachable state of the simulation, and the entry that
\* store_history writes to its exp_queue_wait_time history is 0 at every tick.
C12_NoExpeditedQueueNoExpeditedWait ==
    \A n \in AttractionNames :
        ~attraction_characteristics[n].expedited_queue =>
            /\ get_exp_wait_time(attraction_characteristics[n], attractions[n]) = 0
            /\ \A i \in 1..Len(history.exp_queue_wait_time[n]) :
                   history.exp_queue_wait_time[n][i] = 0

\* a tick has been recorded for an attraction without expedited queue that
\* has a rider, an agent waiting in its standby queue and minutes left in its
\* cycle
C12_Witness ==
    \E n \in AttractionNames :
        /\ ~attraction_characteristics[n].expedited_queue
        /\ history.exp_queue_wait_time[n] # <<>>
        /\ attractions[n].agents_in_attraction # <<>>
        /\ attractions[n].queue # <<>>
        /\ attractions[n].run_time_remaining > 0

\* C13: force_exit(a) on a current visitor a removes exactly a and its
\* remaining-time entry: the other visitors stay in the same relative order,
\* each with the remaining time it had, and the two lists stay index-aligned.
C13_ForceExitRemovesOnlyTheAgent ==
    [][obj'.call.name = "force_exit" =>
          LET a == obj'.call.agent_id
              before == obj.v
              after == obj'.v
          IN  /\ after.visitors = SelectSeq(before.visitors, LAMBDA x : x # a)
              /\ Len(after.visitor_time_remaining) = Len(after.visitors)
              /\ \A i \in 1..Len(after.visitors) :
                    \E j \in 1..Len(before.visitors) :
                        /\ before.visitors[j] = after.visitors[i]
                        /\ before.visitor_time_remaining[j] = after.visitor_time_remaining[i]]_vars

\* force_exit took out a visitor that was not the newest one, and two
\* visitors with different remaining times are left
C13_Witness ==
    /\ obj.call.name = "force_exit"
    /\ Len(obj.v.visitors) = 2
    /\ obj.call.result[1] <= 2
    /\ obj.v.visitor_time_remaining[1] # obj.v.visitor_time_remaining[2]

\* C14: after any sequence of add_to_activity, force_exit, step and
\* pass_time the visitor list and the remaining-minutes list have equal
\* length, and entry i of the second is the remaining time of the visitor at
\* entry i, also when several visitors reach zero in the same step.
C14_VisitorListsAligned ==
    /\ Len(obj.v.visitors) = Len(obj.v.visitor_time_remaining)
    /\ \A i \in 1..Len(obj.v.visitors) :
          obj.v.visitor_time_remaining[i] = obj.remaining[obj.v.visitors[i]]

\* a step in which two visitors left together and a third one stays
C14_Witness ==
    /\ obj.call.name = "step"
    /\ Len(obj.call.result) = 2
    /\ Len(obj.v.visitors) = 1
    /\ obj.v.visitor_time_remaining[1] > 0

\* C15: select_age_class always returns a class, and never one whose
\* percentage is 0: with percentages (no_child_rides 0.0, no_adult_rides 1.0,
\* no_preference 0.0) every agent gets age_class no_adult_rides, for every
\* value of the uniform draw.
C15_AgeClassHasPositiveShare ==
    \A a \in 1..Len(obj.age_class) :
        /\ \E i \in 1..Len(AgeClassOrder) :
              /\ obj.age_class[a] = AgeClassOrder[i]
              /\ obj.age_class_distribution[i] > 0
        /\ (obj.age_class_distribution = <<0, 1, 0>>) => obj.age_class[a] = "no_adult_rides"

\* every agent of the archetype with percentages (0, 1, 0) has its class
C15_Witness ==
    /\ obj.age_class_distribution = <<0, 1, 0>>
    /\ Len(obj.age_class) = NumAgents
    /\ \A a \in 1..NumAgents : obj.age_class[a] = "no_adult_rides"

\* the attractions agent a is queued for, rides or holds a pass for
SentTo(a) ==
    {n \in AttractionNames :
        \/ a \in Range(attractions[n].queue)
        \/ a \in Range(attractions[n].exp_queue)
        \/ a \in Range(attractions[n].agents_in_attraction)
        \/ n \in Range(agents[a].expedited_pass)}

\* C16: a no_child_rides agent is never placed in the standby queue of, nor
\* issued a pass for, a child-only attraction (child_eligible and not
\* adult_eligible), and a no_adult_rides agent never for an adult-only
\* attraction.
C16_AgeClassRespected ==
    \A a \in Agents : \A n \in SentTo(a) :
        LET c == attraction_characteristics[n]
        IN  /\ agents[a].age_class = "no_child_rides" => ~(c.child_eligible /\ ~c.adult_eligible)
            /\ agents[a].age_class = "no_adult_rides" => ~(c.adult_eligible /\ ~c.child_eligible)

\* a no_child_rides agent holds a pass for the adult-only attraction while a
\* no_preference agent is in the child-only one
C16_Witness ==
    \E a, b \in Agents :
        /\ agents[a].age_class = "no_child_rides"
        /\ "A2" \in Range(agents[a].expedited_pass)
        /\ agents[b].age_class = "no_preference"
        /\ "A1" \in SentTo(b)

\* C18: in every reachable state an agent holds at most exp_limit passes at
\* once, and an agent created without the expedited ability holds none.
C18_PassesWithinLimit ==
    \A a \in Agents :
        /\ Len(agents[a].expedited_pass) <= cfg.exp_limit
        /\ ~agents[a].expedited_pass_ability => agents[a].expedited_pass = <<>>

\* an agent that holds exp_limit passes has just turned to an activity
\* although another attraction open to it offers passes and has a wait above
\* the threshold, and in the same minute an agent without the ability has
\* joined the standby queue of an attraction that offers passes
C18_Witness ==
    \E a, b \in Agents : \E n, m \in AttractionNames :
        /\ agents[a].expedited_pass_ability
        /\ agents[a].age_class = "no_preference"
        /\ Len(agents[a].expedited_pass) = cfg.exp_limit
        /\ decision.agent = a
        /\ decision.location \in ActivityNames
        /\ n \notin Range(agents[a].expedited_pass)
        /\ attraction_characteristics[n].expedited_queue
        /\ attractions[n].exp_queue_passes > 0
        /\ get_wait_time(attraction_characteristics[n], attractions[n]) > cfg.exp_wait_threshold
        /\ ~agents[b].expedited_pass_ability
        /\ b \in Range(attractions[m].queue)
        /\ attraction_characteristics[m].expedited_queue
        /\ attractions[m].exp_queue_passes > 0
        /\ attractions[m].run_time_remaining > cfg.exp_wait_threshold

\* C19: a call of get_wait_time or get_exp_wait_time leaves the attraction
\* unchanged: standby queue, expedited queue, occupants, remaining cycle
\* minutes, pass budget and distributed count are after the call what they
\* were before it.
C19_EstimatesLeaveAttractionUnchanged ==
    [][obj'.call.name \in {"get_wait_time", "get_exp_wait_time"} =>
          /\ obj'.s.queue = obj.s.queue
          /\ obj'.s.exp_queue = obj.s.exp_queue
          /\ obj'.s.agents_in_attraction = obj.s.agents_in_attraction
          /\ obj'.s.run_time_remaining = obj.s.run_time_remaining
          /\ obj'.s.exp_queue_passes = obj.s.exp_queue_passes
          /\ obj'.s.exp_queue_passes_distributed = obj.s.exp_queue_passes_distributed]_vars

\* get_wait_time has returned an estimate of at least one whole cycle for an
\* attraction with riders and agents in both queues
C19_Witness ==
    /\ obj.call.name = "get_wait_time"
    /\ obj.c.expedited_queue
    /\ obj.call.result >= obj.c.run_time + obj.s.run_time_remaining
    /\ obj.s.agents_in_attraction # <<>>
    /\ obj.s.exp_queue # <<>>
    /\ obj.s.exp_queue_passes > 0

\* the table handed to generate_arrival_schedule fails one of its two checks
InvalidTable == SeqSum(gen.arrival_seed) # 100 \/ Len(gen.arrival_seed) > 24

\* generate_arrival_schedule fails for every invalid table, generate_agents
\* for every archetype distribution that does not sum to 100
ValidationFails ==
    /\ (InvalidTable /\ gen.pc # "validate") => (gen.pc = "raised" /\ gen.error = "AssertionError")
    /\ (pc # None /\ SeqSum(obj.behavior_archetype_distribution) # 100) => pc = "raised"

\* C20 as stated: generate_arrival_schedule fails for every hourly table that
\* does not sum to 100 or has more than 24 buckets, generate_agents for every
\* archetype distribution not summing to 100, and on such a failure the
\* schedule is still empty, park_close is still unset and no agent was created.
C20_FailureLeavesNoState ==
    /\ ValidationFails
    /\ ((InvalidTable /\ gen.pc = "raised") \/ pc = "raised") =>
          /\ DOMAIN gen.schedule = {}
          /\ gen.park_close = Unset
          /\ DOMAIN agents = {}

\* C20, amended: both calls fail as stated, each before it writes anything.
\* After a failed generate_arrival_schedule the schedule is empty, park_close
\* is unset and there is no agent; after a failed generate_agents there is no
\* agent, while the schedule and park_close of the earlier call remain.
C20_FailureBeforeAnyWrite ==
    /\ ValidationFails
    /\ (InvalidTable /\ gen.pc = "raised") =>
          /\ DOMAIN gen.schedule = {}
          /\ gen.park_close = Unset
          /\ DOMAIN agents = {}
    /\ pc = "raised" =>
          /\ DOMAIN agents = {}
          /\ gen.pc = "done"
          /\ DOMAIN gen.schedule = 0..(MinutesPerHour * Len(gen.arrival_seed) - 1)

\* generate_agents has failed on a park whose schedule holds arrivals and
\* whose closing minute is set
C20_Witness ==
    /\ pc = "raised"
    /\ SeqSum(obj.behavior_archetype_distribution) # 100
    /\ schedule_total(gen.schedule) > 0
    /\ gen.park_close # Unset
    /\ DOMAIN agents = {}

\* C17: an agent whose archetype has allow_repeats = False visits each
\* attraction only once: its times_completed counter of every attraction
\* stays at most 1, and it never appears twice in the standby queue of one
\* attraction.
C17_NoRepeatVisits ==
    \A a \in Agents : \A n \in AttractionNames :
        ~agents[a].allow_repeats =>
            /\ agents[a].times_completed[n] <= 1
            /\ Cardinality({i \in 1..Len(attractions[n].queue) : attractions[n].queue[i] = a}) <= 1

\* the index of the first zero-percentage hour of a table that has one
first_zero_hour(arrival_seed) ==
    CHOOSE hour \in 0..(Len(arrival_seed) - 1) :
        /\ arrival_seed[hour + 1] = 0
        /\ \A earlier \in 0..(hour - 1) : arrival_seed[earlier + 1] # 0

\* generate_arrival_schedule has read every hour of a valid table
Sampled ==
    /\ gen.pc \notin {"validate", "sampling"}
    /\ SeqSum(gen.arrival_seed) = 100
    /\ Len(gen.arrival_seed) <= 24

\* C21: once every hour of a table with a zero-percentage hour is read,
\* park_close is 60 times the index of the first zero-percentage hour, also
\* when that hour is hour 0 and whatever the later hours hold.
C21_ParkCloseIsFirstZeroHour ==
    (Sampled /\ \E i \in DOMAIN gen.arrival_seed : gen.arrival_seed[i] = 0)
    => gen.park_close = MinutesPerHour * first_zero_hour(gen.arrival_seed)

\* C22: once the schedule is generated from a valid table, every minute at or
\* after park_close has zero arrivals, with or without exact-total correction.
C22_NoArrivalsAfterClose ==
    (Sampled /\ gen.park_close # Unset)
    => \A exact_minute \in DOMAIN gen.schedule :
          exact_minute >= gen.park_close => gen.schedule[exact_minute] = 0

\* C23: during and after the correction to the exact total every minute
\* bucket is >= 0; each decrement is applied to a bucket whose count is
\* positive, and each decrement step finds such a bucket.
C23_CorrectionKeepsBucketsNonNegative ==
    [][/\ \A exact_minute \in DOMAIN gen'.schedule : gen'.schedule[exact_minute] >= 0
       /\ gen.pc = "decrement" =>
             /\ gen'.pc # "raised"
             /\ \E rng_key \in DOMAIN gen.schedule :
                   /\ gen.schedule[rng_key] > 0
                   /\ gen'.schedule = [gen.schedule EXCEPT ![rng_key] = @ - 1]]_vars

\* a correction of two decrements has ended, one bucket brought down to 0
C23_Witness ==
    /\ gen.pc = "done"
    /\ gen.perfect_arrivals
    /\ gen.dif = 2
    /\ gen.iteration = 2
    /\ schedule_total(gen.schedule) = gen.total_daily_agents
    /\ gen.total_daily_agents = 1

\* agent a is within the park and idling in the agent table ags
Idle(ags, a) == ags[a].within_park /\ ags[a].current_action = "idling"

\* C24: the list of deciders is the agents idle after the tick's arrivals,
\* each once; a decision is taken by an agent of that list, idle at that
\* moment, which then leaves the list, and moves no other agent; no decision
\* is taken in the rest of the tick, so an agent that becomes idle when it
\* exits an attraction or an activity is in no list before the next tick.
C24_DecisionsFromIdleSnapshot ==
    [][/\ pc = "arrivals" =>
             /\ Range(idle_agent_ids') = {a \in Agents : Idle(agents', a)}
             /\ Len(idle_agent_ids') = Cardinality(Range(idle_agent_ids'))
       /\ pc = "decisions" =>
             /\ decision'.agent \in Range(idle_agent_ids)
             /\ Idle(agents, decision'.agent)
             /\ Range(idle_agent_ids') = Range(idle_agent_ids) \ {decision'.agent}
             /\ Len(idle_agent_ids') = Len(idle_agent_ids) - 1
             /\ \A a \in Range(idle_agent_ids') : Idle(agents', a)
             /\ \A a \in Agents \ {decision'.agent} : agents'[a] = agents[a]
       /\ pc # "decisions" =>
             /\ decision' \in {decision, NoDecision}
             /\ idle_agent_ids' = idle_agent_ids \/ pc = "arrivals"
       /\ \A a \in Agents :
             (Idle(agents', a) /\ ~Idle(agents, a) /\ pc # "arrivals")
             => /\ pc \in {"attractions", "activities"}
                /\ a \notin Range(idle_agent_ids')
                /\ time' = time]_vars

\* one agent was moved by its decision and the other, exiting the one-minute
\* attraction later in the tick, idles with no decision taken
C24_Witness ==
    /\ pc = "activities"
    /\ step_result.name = "A2"
    /\ \E a \in Range(step_result.exiting_agents) :
          /\ Idle(agents, a)
          /\ decision.agent # a
          /\ decision.agent \in Agents
          /\ decision.action = "traveling"
          /\ agents[decision.agent].current_action \in {"queueing", "riding", "browsing"}
          /\ agents[decision.agent].current_location = decision.location
    /\ idle_agent_ids = <<>>

\* C25: both queues are served first-in first-out. Agents are numbered in
\* the order they join: at a load, an agent taken from a queue leaves no
\* agent behind that joined the same queue before it, so every earlier agent
\* was loaded in this cycle or before, or returned its pass; in the occupant
\* list the expedited agents stand before the standby agents, each group in
\* joining order.
C25_QueuesServedFirstInFirstOut ==
    [][(~obj.stepped /\ obj'.stepped /\ obj.s.run_time_remaining = 0) =>
          LET occupants == obj'.s.agents_in_attraction
              waiting == Range(obj.s.queue) \cup Range(obj.s.exp_queue)
              left == Range(obj'.s.queue) \cup Range(obj'.s.exp_queue)
          IN  /\ \A b \in Range(occupants) : \A a \in left :
                    (a < ExpIdBase <=> b < ExpIdBase) => b < a
              /\ Range(occupants) \cup left = waiting
              /\ Range(occupants) \cap left = {}
              /\ occupants = obj'.call.loaded_agents
              /\ \A i, j \in DOMAIN occupants :
                    i < j => /\ occupants[i] >= ExpIdBase \/ occupants[j] < ExpIdBase
                             /\ (occupants[i] >= ExpIdBase <=> occupants[j] >= ExpIdBase)
                                   => occupants[i] < occupants[j]]_vars

\* a later cycle has loaded the second expedited agent, the first having
\* returned its pass, ahead of a standby agent that was not the first to
\* join, and an agent still waits
C25_Witness ==
    /\ obj.call.name = "step"
    /\ obj.t >= 1
    /\ obj.returned = 1
    /\ Len(obj.s.agents_in_attraction) = 2
    /\ obj.s.agents_in_attraction[1] = ExpIdBase + 1
    /\ obj.s.agents_in_attraction[2] \in 1..(ExpIdBase - 1)
    /\ obj.s.queue # <<>>

\* C26: at a load of an attraction of integral capacity, the standby agents
\* loaded number min(standby length, capacity - min(expedited length,
\* exp_cap)) with exp_cap = floor(capacity * ratio), and if an agent is left
\* in the standby queue the cycle departs full.
C26_UnfilledExpeditedSeatsGoToStandby ==
    [][(~obj.stepped /\ obj'.stepped /\ obj.s.run_time_remaining = 0
           /\ capacity60(obj.c) % MinutesPerHour = 0) =>
          LET capacity == capacity60(obj.c) \div MinutesPerHour
              exp_cap == (capacity * obj.c.ratio_num) \div obj.c.ratio_den
              seats == capacity - Min(Len(obj.s.exp_queue), exp_cap)
          IN  /\ Len(obj.s.queue) - Len(obj'.s.queue) = Min(Len(obj.s.queue), seats)
              /\ Len(obj'.s.agents_in_attraction)
                    = Min(Len(obj.s.exp_queue), exp_cap) + Min(Len(obj.s.queue), seats)
              /\ obj'.s.queue # <<>> => Len(obj'.s.agents_in_attraction) = capacity]_vars

\* capacity 3 with two expedited seats: one expedited agent and two standby
\* agents were loaded and a standby agent is left waiting
C26_Witness ==
    /\ obj.call.name = "step"
    /\ obj.call.loading
    /\ obj.c.hourly_throughput = 90
    /\ Len(obj.call.expedited_agents_to_load) = 1
    /\ Len(obj.s.agents_in_attraction) = 3
    /\ obj.s.exp_queue = <<>>
    /\ obj.s.queue # <<>>

\* C27: stepped and then passed once per tick, an attraction keeps its
\* remaining cycle minutes within 0..run_time; its step unloads and loads
\* exactly when remaining is 0, which is at the ticks that are multiples of
\* run_time, and otherwise returns two empty lists and changes neither queue
\* nor the occupants; the occupants change in no other step, so the agents
\* loaded at one multiple of run_time are the agents returned as exiting at
\* the next.
C27_CyclesAreRunTimeLong ==
    [][/\ \A n \in AttractionNames :
             /\ attractions'[n].run_time_remaining \in 0..attraction_characteristics[n].run_time
             /\ attractions'[n].agents_in_attraction # attractions[n].agents_in_attraction
                   => /\ pc = "attractions"
                      /\ AttractionOrder[attr_idx] = n
                      /\ time % attraction_characteristics[n].run_time = 0
       /\ pc = "attractions" =>
             LET n == AttractionOrder[attr_idx]
                 before == attractions[n]
                 after == attractions'[n]
                 at_multiple == time % attraction_characteristics[n].run_time = 0
             IN  /\ step_result'.name = n
                 /\ at_multiple <=> before.run_time_remaining = 0
                 /\ at_multiple =>
                       /\ step_result'.exiting_agents = before.agents_in_attraction
                       /\ step_result'.loaded_agents = after.agents_in_attraction
                       /\ after.run_time_remaining = attraction_characteristics[n].run_time
                 /\ ~at_multiple =>
                       /\ step_result'.exiting_agents = <<>>
                       /\ step_result'.loaded_agents = <<>>
                       /\ after.queue = before.queue
                       /\ after.exp_queue = before.exp_queue
                       /\ after.agents_in_attraction = before.agents_in_attraction
                       /\ after.run_time_remaining = before.run_time_remaining]_vars

\* the three-minute attraction, at a later multiple of its run time, has
\* returned the agents it loaded three ticks earlier and loaded again
C27_Witness ==
    /\ step_result.name = "A1"
    /\ attraction_characteristics["A1"].run_time = 3
    /\ time \in {3, 6, 9}
    /\ step_result.exiting_agents # <<>>
    /\ step_result.loaded_agents # <<>>
    /\ attractions["A1"].run_time_remaining = 3

\* C28: a visitor admitted at tick t with stay s >= 1 is returned by the
\* step of tick t + s and by no other step, unless force_exit took it out
\* before; a step returns each agent once and the agent is then no visitor;
\* no remaining time is negative.
C28_VisitorLeavesWhenStayIsOver ==
    [][/\ (~obj.stepped /\ obj'.stepped) =>
             /\ Range(obj'.call.result)
                   = {a \in Range(obj.v.visitors) : obj.due[a] = obj.t}
             /\ Len(obj'.call.result) = Cardinality(Range(obj'.call.result))
             /\ Range(obj'.call.result) \cap Range(obj'.v.visitors) = {}
       /\ \A i \in 1..Len(obj'.v.visitor_time_remaining) :
             obj'.v.visitor_time_remaining[i] >= 0
       /\ \A a \in Range(obj'.v.visitors) :
             /\ obj'.due[a] >= obj'.t + 1 \/ (obj'.due[a] = obj'.t /\ ~obj'.stepped)
             /\ obj'.call.name = "add_to_activity" /\ obj'.call.agent_id = a
                   => obj'.due[a] >= obj'.t + 1]_vars

\* the step of tick 2 returned a visitor admitted at tick 0 with a stay of 2
\* together with one admitted at tick 1 with a stay of 1, a third stays
C28_Witness ==
    /\ obj.call.name = "step"
    /\ obj.t = 2
    /\ Len(obj.call.result) = 2
    /\ Len(obj.v.visitors) = 1
    /\ obj.due[obj.v.visitors[1]] > 2

\* the stay the admitted agent was given
admitted_stay == obj.v.visitor_time_remaining[Len(obj.v.visitor_time_remaining)]

\* C29: an agent admitted while holding pass deadlines stays at least 1
\* minute, and its stay is min(drawn stay, d) for d the soonest positive
\* deadline: a zero or negative countdown next to a positive one does not
\* shorten the stay.
C29_StayCappedBySoonestPositiveDeadline ==
    (obj.admitted /\ obj.expedited_return_time # <<>>) =>
        LET positive == {d \in Range(obj.expedited_return_time) : d > 0}
        IN  /\ admitted_stay >= 1
            /\ positive # {} =>
                  admitted_stay
                     = Min(obj.drawn, CHOOSE d \in positive : \A e \in positive : d <= e)

\* C29 as the code has it: the stay is at least 1 and at most the drawn
\* stay, at most every held deadline raised to 1, overdue ones included, and
\* it equals the drawn stay or a held deadline raised to 1; without deadlines
\* it is the drawn stay.
C29_StayCappedBySoonestDeadline ==
    obj.admitted =>
        /\ admitted_stay >= 1
        /\ admitted_stay <= obj.drawn
        /\ \A d \in Range(obj.expedited_return_time) : admitted_stay <= Max(1, d)
        /\ \/ admitted_stay = obj.drawn
           \/ \E d \in Range(obj.expedited_return_time) : admitted_stay = Max(1, d)
        /\ (\E d \in Range(obj.expedited_return_time) : d <= 0) => admitted_stay = 1

\* an agent with an overdue countdown and one three minutes ahead drew a
\* stay of 3 and was admitted for 1 minute
C29_Witness ==
    /\ obj.admitted
    /\ obj.drawn = 3
    /\ obj.expedited_return_time = <<-1, 3>>
    /\ admitted_stay = 1

\* C30: a decision sends an agent to the standby queue of an attraction only
\* if, in the state the decision is taken in, the attraction's standby
\* estimate is at most wait_threshold + 6 * popularity and every countdown
\* the agent holds is at least that estimate plus the attraction's run_time;
\* a candidate failing either test is therefore never the one chosen.
C30_StandbyOnlyWithinThresholds ==
    [][(pc = "decisions" /\ decision'.action = "traveling"
           /\ decision'.location \in AttractionNames) =>
          LET ag == agents[decision'.agent]
              n == decision'.location
              wait == get_wait_time(attraction_characteristics[n], attractions[n])
          IN  /\ wait <= ag.wait_threshold + 6 * attraction_characteristics[n].popularity
              /\ \A i \in DOMAIN ag.expedited_return_time :
                    ag.expedited_return_time[i] >= wait + attraction_characteristics[n].run_time
              /\ attractions'[n].queue = Append(attractions[n].queue, decision'.agent)]_vars

\* an agent holding a pass has joined a standby queue behind another agent
C30_Witness ==
    /\ decision.action = "traveling"
    /\ decision.location \in AttractionNames
    /\ agents[decision.agent].expedited_return_time # <<>>
    /\ agents[decision.agent].current_action = "queueing"
    /\ Len(attractions[decision.location].queue) = 2
    /\ attractions[decision.location].queue[2] = decision.agent

\* C31: select_attraction_decision returns for every candidate set and every
\* state of the attractions, after at most as many draws as there are
\* candidates: each draw either fixes the action or removes the drawn
\* candidate, and when every candidate is rejected the pair (None, None) is
\* returned and the caller selects an activity.
C31_SelectionReturnsWithinCandidateDraws ==
    obj.pc \in {"loop", "returned", "raised"} =>
        /\ obj.pc # "raised"
        /\ obj.step_rng <= Cardinality(obj.candidates)
        /\ obj.valid_attractions \subseteq obj.candidates
        /\ Cardinality(obj.valid_attractions) + obj.step_rng
              = Cardinality(obj.candidates) + (IF obj.action = None THEN 0 ELSE 1)
        /\ obj.step_rng > 0 /\ obj.action = None =>
              obj.desired_attraction \in obj.candidates \ obj.valid_attractions
        /\ obj.pc = "returned" /\ obj.action = None =>
              /\ obj.valid_attractions = {}
              /\ obj.decision \in select_activity_decision

\* C32: at the end of every tick each agent id occurs at most once in total
\* across all standby queues, all attraction occupant lists and all activity
\* visitor lists.
C32_OnePlacePerAgent ==
    LET occurrences(list, a) == Cardinality({i \in 1..Len(list) : list[i] = a})
        RECURSIVE in_attractions(_, _)
        in_attractions(i, a) ==
            IF i = 0 THEN 0
            ELSE in_attractions(i - 1, a)
                   + occurrences(attractions[AttractionOrder[i]].queue, a)
                   + occurrences(attractions[AttractionOrder[i]].agents_in_attraction, a)
        RECURSIVE in_activities(_, _)
        in_activities(i, a) ==
            IF i = 0 THEN 0
            ELSE in_activities(i - 1, a) + occurrences(activities[ActivityOrder[i]].visitors, a)
    IN  pc = "arrivals" =>
            \A a \in Agents :
                in_attractions(Len(AttractionOrder), a) + in_activities(Len(ActivityOrder), a) <= 1

\* C33: no agent is loaded onto an attraction, and no pass redemption is
\* counted, at a tick when that agent is not within the park, and an agent
\* that is not within the park occupies no seat.
C33_OnlyAgentsWithinParkRide ==
    /\ \A i \in 1..Len(step_result.loaded_agents) :
          agents[step_result.loaded_agents[i]].within_park
    /\ \A n \in AttractionNames :
          \A i \in 1..Len(attractions[n].agents_in_attraction) :
              agents[attractions[n].agents_in_attraction[i]].within_park

\* C34: at the end of every tick an agent holds a pass for an attraction if
\* and only if its id is in that attraction's expedited queue, and then
\* exactly once in the queue and once in its list of passes; return_pass and
\* return_exp_pass are not called for an agent missing from the queue or list.
C34_PassHeldIffInExpeditedQueue ==
    /\ pc # "raised"
    /\ pc = "arrivals" =>
          \A a \in Agents : \A n \in AttractionNames :
              LET held == {i \in 1..Len(agents[a].expedited_pass) :
                              agents[a].expedited_pass[i] = n}
                  queued == {i \in 1..Len(attractions[n].exp_queue) :
                                attractions[n].exp_queue[i] = a}
              IN  /\ Cardinality(held) = Cardinality(queued)
                  /\ Cardinality(held) <= 1

\* C35: an attraction's issuable pass budget exp_queue_passes is never
\* negative, neither after the refresh in Attraction.step nor after
\* remove_pass or return_pass.
C35_PassBudgetNeverNegative ==
    \A n \in AttractionNames : attractions[n].exp_queue_passes >= 0

\* C36: get_wait_time and get_exp_wait_time return in every reachable state
\* of every attraction with an expedited queue, also when
\* int(capacity * ratio) is 0 and when the expedited queue is at least as
\* long as the capacity: no call of the engine hangs and a call made in any
\* reachable state would return.
C36_WaitEstimatesReturn ==
    /\ pc # "hung"
    /\ \A n \in AttractionNames :
          attraction_characteristics[n].expedited_queue =>
              /\ get_wait_time(attraction_characteristics[n], attractions[n]) >= 0
              /\ get_exp_wait_time(attraction_characteristics[n], attractions[n]) # Diverges

\* C37: no pass is issued at a tick with time >= park_close: no decision of
\* such a tick is "get pass", also after an earlier agent of the tick returned
\* a pass while leaving, and the distributed-pass counters do not increase.
C37_NoPassIssuedAfterClose ==
    [][(pc = "decisions" /\ time >= cfg.park_close) =>
          /\ decision'.action # "get pass"
          /\ history'.distributed_passes <= history.distributed_passes
          /\ \A n \in AttractionNames :
                attractions'[n].exp_queue_passes_distributed
                   <= attractions[n].exp_queue_passes_distributed]_vars

\* C38: for an attraction without expedited queue and with integral
\* capacity, an agent that joins the standby queue at tick t after
\* get_wait_time returned w is loaded in the attraction's step of tick
\* t + w, neither earlier nor later.
C38_StandbyEstimateIsExact ==
    \A i \in 1..Len(obj.joined) :
        LET due == obj.joined[i] + obj.wait[i]
        IN  /\ obj.loaded[i] # NotDue => obj.loaded[i] = due
            /\ (due < obj.t \/ (due = obj.t /\ obj.stepped)) => obj.loaded[i] = due

\* an agent that joined behind a full cycle's worth of agents while a cycle
\* was running has been loaded when the following cycle began
C38_Witness ==
    \E i \in 1..Len(obj.joined) :
        /\ obj.c.run_time = 3
        /\ obj.joined[i] = 1
        /\ obj.wait[i] = 5
        /\ obj.loaded[i] = 6

\* C39: every agent that enters the standby queue of an attraction with
\* floor(capacity) >= 1 is eventually loaded onto it while the engine keeps
\* ticking, whatever the expedited ratio: the expedited queue does not starve
\* the standby queue for ever.
C39_StandbyAgentsAreLoaded ==
    \A agent_id \in 0..(MaxServed - 1) :
        (agent_id \in Range(obj.s.queue)) ~> (agent_id \in Range(obj.s.agents_in_attraction))

\* a standby agent that a cycle left behind, its only seat going to a pass
\* holder, has been loaded by a later cycle
C39_Witness ==
    /\ obj.c.ratio_num = obj.c.ratio_den
    /\ 0 \in obj.bypassed
    /\ 0 \in Range(obj.s.agents_in_attraction)
    /\ obj.exp_queued >= 1

====
